---- MODULE Spec2Model ----
(***************************************************************************)
(* RC2014 MIDI synthesizer: the MIDI byte parser (midi_driver.c), the      *)
(* dispatcher, the voice allocator (synthesizer.c), the chip manager       *)
(* (chip_manager.c) and the YM2149 register driver (ym2149.c).             *)
(*                                                                         *)
(* The C functions are modelled as operators over a record `m` holding the *)
(* globals they read and write:                                            *)
(*   chip    current_chip (CHIP_NONE for the null pointer)                 *)
(*   avail   available_chips                                               *)
(*   voices  ym2149_voices[3]                                              *)
(*   extra   ym2149_voice_extra[3]                                         *)
(*   counter note_counter                                                  *)
(*   regs    the chip's registers 0..13                                    *)
(*   cc      midi_cc_controls[12]                                          *)
(*   log     the register writes of the running handler, in order          *)
(*   bus     the port writes of the running handler, in order              *)
(*   calls   the backend operations the running handler invoked, in order  *)
(***************************************************************************)
EXTENDS Integers, Sequences, FiniteSets, TLC

VARIABLES
    midi_state,          \* midi_driver.c: parser state
    midi_cc_controls,    \* midi_driver.c: controller table
    current_chip,        \* chip_manager.c: active backend (chip id, 0 = none)
    available_chips,     \* chip_manager.c: bitmask of detected chips
    ym2149_voices,       \* ym2149.c: voice_t[3]
    ym2149_voice_extra,  \* ym2149.c: ym2149_voice_extra_t[3]
    note_counter,        \* allocation stamp counter
    regs,                \* YM2149 registers 0..13 as last written
    port_log,            \* register writes <<reg, value>> of the last handler
    bus_log,             \* port accesses (outp) of the last handler, one entry each
    calls,               \* backend operations of the last handler: <<name, voice>>,
                         \* and <<name, NO_VOICE, bend>> for set_pitch_bend
    dispatched,          \* messages the last processed byte handed to midi_process_message
    pending,             \* history: the last status byte and the data bytes received since it
                         \* (or since the last dispatch)
    last_op,             \* history: the handler that ran last, with its arguments
    alloc_log,           \* history: voice indices of successive direct calls of
                         \* allocate_voice or set_volume
    chip_present,        \* hardware: a YM2149 answers on the bus (fixed per behaviour)
    det,                 \* ym2149.c: detect_ym2149 in progress (position, locals, the
                         \* interrupt mask, the bus address latch) and its history
    loop,                \* main.c: position in the main loop, midi_mode, kb_last_note,
                         \* the serial receiver's unread bytes, and history counters
    twin,                \* a second parser, freshly initialised when the last
                         \* system-common byte had been processed and fed the same
                         \* bytes since: its midi_state and what it dispatched last
    ym2149_ports         \* ym2149.c: the configured address and data port, kept with
                         \* the function-static config_initialized of ym2149_init

vars == <<midi_state, midi_cc_controls, current_chip, available_chips,
          ym2149_voices, ym2149_voice_extra, note_counter, regs, port_log, bus_log,
          calls, dispatched, pending, last_op, alloc_log, chip_present, det, loop, twin,
          ym2149_ports>>

synthVars == <<midi_cc_controls, current_chip, available_chips, ym2149_voices,
               ym2149_voice_extra, note_counter, regs, port_log, bus_log, calls>>

parserVars == <<midi_state, dispatched, pending>>

----------------------------------------------------------------------------
(* Program constants *)

CHIP_NONE == 0
CHIP_YM2149 == 1
CHIP_OPL3 == 2

MIDI_NOTE_OFF == 128
MIDI_NOTE_ON == 144
MIDI_CONTROL_CHANGE == 176
MIDI_PROGRAM_CHANGE == 192
MIDI_PITCH_BEND == 224

MIDI_MODE_NONE == 0
MIDI_MODE_BIOS == 1
MIDI_MODE_KEYBOARD == 2

NO_VOICE == 255
YM2149_VOICES == 3

YM2149_FREQ_A_LSB == 0
YM2149_FREQ_A_MSB == 1
YM2149_FREQ_NOISE == 6
YM2149_MIXER == 7
YM2149_LEVEL_A == 8
YM2149_LEVEL_B == 9
YM2149_LEVEL_C == 10
YM2149_FREQ_ENV_LSB == 11
YM2149_FREQ_ENV_MSB == 12
YM2149_SHAPE_ENV == 13
YM2149_LAST_REG == 13

YM2149_MIX_ALL_TONE == 56
YM2149_MIX_ALL_OFF == 63
YM2149_VOLUME_FIXED == 0
YM2149_VOLUME_ENV == 16

YM2149_ENV_OFF == 0
YM2149_ENV_TRIANGLE == 2
YM2149_ENV_SAWTOOTH == 3
YM2149_ENV_TRIANGLE_DECAY == 6
YM2149_ENV_PULSE_DECAY == 7

YM2149_MIDI_NOTE_MIN == 24
YM2149_MIDI_NOTE_MAX == 96

PITCH_BEND_DIVISOR == 72000
DETECT_MIXER_MASK == 63      \* read_back & 0x3F
DETECT_LEVEL_MASK == 15      \* read_back & 0x0F
DETECT_FREQ_VALUE == 66      \* 0x42

PERIOD_MIN == 1
PERIOD_MAX == 4095

(* Model bounds *)

MaxCounter == 4      \* allocations per behaviour (note_counter is capped here)
MaxParserAllocs == 1 \* allocations per behaviour when bytes are fed to the parser
MaxAllocs == 4       \* length of a run of successive allocations
MaxControlAllocs == 2   \* allocations per behaviour when controllers are played

MaxDetectRuns == 2      \* consecutive calls of detect_ym2149 per behaviour
MaxInterrupts == 1      \* interrupts taken per behaviour

MaxVolumeCalls == 1     \* direct ym2149_set_volume calls per behaviour

MaxPeriodNotes == 1     \* Note On messages per behaviour over the whole note range

MaxSerialBytes == 3     \* bytes the serial receiver takes in per behaviour
MaxKeys == 3            \* console keys typed per behaviour

MaxStamp == 2        \* largest start_time of the voice arrays given to allocate_voice

----------------------------------------------------------------------------
(* Integer helpers: C arithmetic on the widths the code uses *)

U8(x) == x % 256
U16(x) == x % 65536

\* C integer division truncates toward zero
TruncDiv(a, b) == IF a >= 0 THEN a \div b ELSE -((-a) \div b)

RECURSIVE BitAnd(_, _)
BitAnd(a, b) ==
    IF a = 0 \/ b = 0 THEN 0
    ELSE (IF a % 2 = 1 /\ b % 2 = 1 THEN 1 ELSE 0) + 2 * BitAnd(a \div 2, b \div 2)

RECURSIVE BitOr(_, _)
BitOr(a, b) ==
    IF a = 0 THEN b
    ELSE IF b = 0 THEN a
    ELSE (IF a % 2 = 1 \/ b % 2 = 1 THEN 1 ELSE 0) + 2 * BitOr(a \div 2, b \div 2)

VoiceIdx == 0 .. (YM2149_VOICES - 1)

----------------------------------------------------------------------------
(* ym2149.c: register access *)

\* Variant of ym2149_write_register: the data phase comes before the address phase
ym2149_write_register_data_first(m, reg, data) ==
    [m EXCEPT !.regs = IF reg \in DOMAIN m.regs THEN [@ EXCEPT ![reg] = data] ELSE @,
              !.log = Append(@, <<reg, data>>),
              !.bus = @ \o << <<"data", data>>, <<"addr", reg>> >>]

\* ym2149_write_register: address phase then data phase; the chip stores the value
ym2149_write_register(m, reg, data) ==
    [m EXCEPT !.regs = IF reg \in DOMAIN m.regs THEN [@ EXCEPT ![reg] = data] ELSE @,
              !.log = Append(@, <<reg, data>>),
              !.bus = @ \o << <<"addr", reg>>, <<"data", data>> >>]

\* ym2149_note_to_freq: the tone-period table for MIDI notes 24..96
note_tp ==
    << 3522, 3325, 3138, 2962, 2796, 2639, 2491, 2351,
       2219, 2095, 1977, 1866,
       1761, 1662, 1569, 1481, 1398, 1319, 1245, 1175,
       1109, 1047,  989,  933,
        881,  831,  784,  740,  699,  660,  623,  588,
        555,  524,  494,  467,
        440,  416,  392,  370,  349,  330,  311,  294,
        277,  262,  247,  233,
        220,  208,  196,  185,  175,  165,  156,  147,
        139,  131,  124,  117,
        110,  104,   98,   93,   87,   82,   78,   73,
         69,   65,   62,   58,
         55 >>

\* Variant of ym2149_note_to_freq: notes below the table are clamped to its
\* top instead of its bottom
ym2149_note_to_freq_low_to_top(note) ==
    LET n1 == IF note < YM2149_MIDI_NOTE_MIN THEN YM2149_MIDI_NOTE_MAX ELSE note
        n2 == IF n1 > YM2149_MIDI_NOTE_MAX THEN YM2149_MIDI_NOTE_MAX ELSE n1
    IN  note_tp[n2 - YM2149_MIDI_NOTE_MIN + 1]

ym2149_note_to_freq(note) ==
    LET n1 == IF note < YM2149_MIDI_NOTE_MIN THEN YM2149_MIDI_NOTE_MIN ELSE note
        n2 == IF n1 > YM2149_MIDI_NOTE_MAX THEN YM2149_MIDI_NOTE_MAX ELSE n1
    IN  note_tp[n2 - YM2149_MIDI_NOTE_MIN + 1]

\* Variant of ym2149_apply_pitch_bend: the bend is taken as the raw 14-bit
\* value, not centred at 0
ym2149_apply_pitch_bend_uncentred(base_freq, bend) ==
    LET delta == TruncDiv(base_freq * (bend + 8192), PITCH_BEND_DIVISOR)
        result == base_freq - delta
        r1 == IF result < PERIOD_MIN THEN PERIOD_MIN ELSE result
        r2 == IF r1 > PERIOD_MAX THEN PERIOD_MAX ELSE r1
    IN  U16(r2)

\* Variant of ym2149_apply_pitch_bend: the quotient is rounded down, not
\* toward zero
ym2149_apply_pitch_bend_floor(base_freq, bend) ==
    LET delta == (base_freq * bend) \div PITCH_BEND_DIVISOR
        result == base_freq - delta
        r1 == IF result < PERIOD_MIN THEN PERIOD_MIN ELSE result
        r2 == IF r1 > PERIOD_MAX THEN PERIOD_MAX ELSE r1
    IN  U16(r2)

ym2149_apply_pitch_bend(base_freq, bend) ==
    LET delta == TruncDiv(base_freq * bend, PITCH_BEND_DIVISOR)
        result == base_freq - delta
        r1 == IF result < PERIOD_MIN THEN PERIOD_MIN ELSE result
        r2 == IF r1 > PERIOD_MAX THEN PERIOD_MAX ELSE r1
    IN  U16(r2)

ym2149_set_frequency(m, voice, freq) ==
    IF voice >= YM2149_VOICES THEN m
    ELSE LET freq_lsb == YM2149_FREQ_A_LSB + (voice * 2)
             freq_msb == YM2149_FREQ_A_MSB + (voice * 2)
             m1 == ym2149_write_register(m, freq_lsb, freq % 256)
         IN  ym2149_write_register(m1, freq_msb, (freq \div 256) % 16)

\* Variant of ym2149_set_volume: the value is written without the clamp to 15
ym2149_set_volume_unclamped(m, voice, volume) ==
    IF voice >= YM2149_VOICES THEN m
    ELSE LET m1 == [m EXCEPT !.extra[voice].volume = volume]
             reg_val == IF m1.extra[voice].envelope_enabled # 0
                        THEN BitOr(volume, YM2149_VOLUME_ENV) ELSE volume
         IN  ym2149_write_register(m1, YM2149_LEVEL_A + voice, reg_val)

ym2149_set_volume(m, voice, volume) ==
    IF voice >= YM2149_VOICES THEN m
    ELSE LET m1 == [m EXCEPT !.extra[voice].volume = volume]
             vol == IF volume > 15 THEN 15 ELSE volume
             reg_val == IF m1.extra[voice].envelope_enabled # 0
                        THEN BitOr(vol, YM2149_VOLUME_ENV) ELSE vol
         IN  ym2149_write_register(m1, YM2149_LEVEL_A + voice, reg_val)

\* Variants of ym2149_note_on with one step of the code changed

\* the stamp is taken but note_counter is not advanced
ym2149_note_on_no_increment(m, voice, note, velocity, channel) ==
    IF voice >= YM2149_VOICES THEN m
    ELSE LET m1 == [m EXCEPT !.voices[voice] =
                        [active |-> 1, midi_note |-> note, velocity |-> velocity,
                         channel |-> channel, start_time |-> m.counter],
                      !.extra[voice].frequency = ym2149_note_to_freq(note)]
             m2 == ym2149_set_frequency(m1, voice, m1.extra[voice].frequency)
             m3 == [m2 EXCEPT !.extra[voice].volume = U8((velocity * 15) \div 127)]
         IN  ym2149_set_volume(m3, voice, m3.extra[voice].volume)

\* the voice is programmed but not marked active
ym2149_note_on_not_marked_active(m, voice, note, velocity, channel) ==
    IF voice >= YM2149_VOICES THEN m
    ELSE LET m1 == [m EXCEPT !.voices[voice] =
                        [active |-> m.voices[voice].active, midi_note |-> note,
                         velocity |-> velocity,
                         channel |-> channel, start_time |-> m.counter],
                      !.counter = m.counter + 1,
                      !.extra[voice].frequency = ym2149_note_to_freq(note)]
             m2 == ym2149_set_frequency(m1, voice, m1.extra[voice].frequency)
             m3 == [m2 EXCEPT !.extra[voice].volume = U8((velocity * 15) \div 127)]
         IN  ym2149_set_volume(m3, voice, m3.extra[voice].volume)

ym2149_note_on(m, voice, note, velocity, channel) ==
    IF voice >= YM2149_VOICES THEN m
    ELSE LET m1 == [m EXCEPT !.voices[voice] =
                        [active |-> 1, midi_note |-> note, velocity |-> velocity,
                         channel |-> channel, start_time |-> m.counter],
                      !.counter = m.counter + 1,   \* note_counter++ (no wrap below MaxCounter)
                      !.extra[voice].frequency = ym2149_note_to_freq(note)]
             m2 == ym2149_set_frequency(m1, voice, m1.extra[voice].frequency)
             m3 == [m2 EXCEPT !.extra[voice].volume = U8((velocity * 15) \div 127)]
         IN  ym2149_set_volume(m3, voice, m3.extra[voice].volume)

ym2149_note_off(m, voice) ==
    IF voice >= YM2149_VOICES THEN m
    ELSE ym2149_write_register([m EXCEPT !.voices[voice].active = 0],
                               YM2149_LEVEL_A + voice, 0)

RECURSIVE ym2149_all_off_from(_, _)
ym2149_all_off_from(m, i) ==
    IF i >= 3 THEN m ELSE ym2149_all_off_from(ym2149_note_off(m, i), i + 1)

ym2149_all_off(m) == ym2149_all_off_from(m, 0)

\* Variant of ym2149_panic: the mixer is disabled first, the voices after it
ym2149_panic_mixer_first(m) ==
    ym2149_all_off(ym2149_write_register(m, YM2149_MIXER, YM2149_MIX_ALL_OFF))

ym2149_panic(m) ==
    ym2149_write_register(ym2149_all_off(m), YM2149_MIXER, YM2149_MIX_ALL_OFF)

RECURSIVE ym2149_reset_from(_, _)
ym2149_reset_from(m, reg) ==
    IF reg > YM2149_LAST_REG THEN m
    ELSE ym2149_reset_from(ym2149_write_register(m, reg, 0), reg + 1)

\* Variant of ym2149_reset: only the mixer is written, the registers are not zeroed
ym2149_reset_mixer_only(m) ==
    ym2149_write_register(m, YM2149_MIXER, YM2149_MIX_ALL_OFF)

ym2149_reset(m) ==
    ym2149_write_register(ym2149_reset_from(m, 0), YM2149_MIXER, YM2149_MIX_ALL_OFF)

ZeroVoice == [active |-> 0, midi_note |-> 0, velocity |-> 0, channel |-> 0, start_time |-> 0]
ZeroExtra == [volume |-> 0, envelope_enabled |-> 0, envelope_shape |-> 0, frequency |-> 0]

ym2149_init(m) ==
    LET m0 == [m EXCEPT !.voices = [v \in VoiceIdx |-> ZeroVoice],
                        !.extra = [v \in VoiceIdx |-> ZeroExtra]]
        m1 == ym2149_reset(m0)
        m2 == ym2149_write_register(m1, YM2149_MIXER, YM2149_MIX_ALL_TONE)
        m3 == ym2149_write_register(m2, YM2149_LEVEL_A, BitOr(YM2149_VOLUME_FIXED, 15))
        m4 == ym2149_write_register(m3, YM2149_LEVEL_B, BitOr(YM2149_VOLUME_FIXED, 15))
        m5 == ym2149_write_register(m4, YM2149_LEVEL_C, BitOr(YM2149_VOLUME_FIXED, 15))
    IN  ym2149_write_register(m5, YM2149_FREQ_NOISE, 31)

\* Variant of ym2149_set_attack: the level register is switched to envelope
\* mode but envelope_enabled is not set
ym2149_set_attack_flag_unset(m, voice, attack) ==
    IF voice >= YM2149_VOICES THEN m
    ELSE LET env_freq == U16((attack * 255) \div 127)
             m1 == ym2149_write_register(m, YM2149_FREQ_ENV_LSB, env_freq % 256)
             m2 == ym2149_write_register(m1, YM2149_FREQ_ENV_MSB, (env_freq \div 256) % 256)
         IN  ym2149_write_register(m2, YM2149_LEVEL_A + voice,
                                   BitOr(YM2149_VOLUME_ENV, m2.extra[voice].volume))

ym2149_set_attack(m, voice, attack) ==
    IF voice >= YM2149_VOICES THEN m
    ELSE LET env_freq == U16((attack * 255) \div 127)
             m1 == ym2149_write_register(m, YM2149_FREQ_ENV_LSB, env_freq % 256)
             m2 == ym2149_write_register(m1, YM2149_FREQ_ENV_MSB, (env_freq \div 256) % 256)
             m3 == [m2 EXCEPT !.extra[voice].envelope_enabled = 1]
         IN  ym2149_write_register(m3, YM2149_LEVEL_A + voice,
                                   BitOr(YM2149_VOLUME_ENV, m3.extra[voice].volume))

ym2149_set_decay(m, voice, decay) ==
    IF voice >= YM2149_VOICES THEN m
    ELSE LET envelope_shape == IF decay > 64 THEN YM2149_ENV_TRIANGLE_DECAY
                               ELSE YM2149_ENV_TRIANGLE
         IN  ym2149_write_register([m EXCEPT !.extra[voice].envelope_shape = envelope_shape],
                                   YM2149_SHAPE_ENV, envelope_shape)

ym2149_set_sustain(m, voice, sustain) ==
    IF voice >= YM2149_VOICES THEN m
    ELSE ym2149_set_volume(m, voice, U8((sustain * 15) \div 127))

\* Variant of ym2149_set_release: the period goes to a pair of its own, the
\* noise period and shape registers, not to the pair set_attack writes
ym2149_set_release_own_pair(m, voice, release) ==
    IF voice >= YM2149_VOICES THEN m
    ELSE LET env_freq == U16((release * 255) \div 127)
             m1 == ym2149_write_register(m, YM2149_FREQ_NOISE, env_freq % 256)
         IN  ym2149_write_register(m1, YM2149_SHAPE_ENV, (env_freq \div 256) % 256)

ym2149_set_release(m, voice, release) ==
    IF voice >= YM2149_VOICES THEN m
    ELSE LET env_freq == U16((release * 255) \div 127)
             m1 == ym2149_write_register(m, YM2149_FREQ_ENV_LSB, env_freq % 256)
         IN  ym2149_write_register(m1, YM2149_FREQ_ENV_MSB, (env_freq \div 256) % 256)

\* vibrato, tremolo and modulation have no hardware support
ym2149_set_vibrato(m, depth) == m
ym2149_set_tremolo(m, rate) == m
ym2149_set_modulation(m, depth) == m

RECURSIVE ym2149_set_pitch_bend_from(_, _, _)
ym2149_set_pitch_bend_from(m, bend, i) ==
    IF i >= 3 THEN m
    ELSE IF m.voices[i].active # 0
         THEN LET base_freq == ym2149_note_to_freq(m.voices[i].midi_note)
                  bent_freq == ym2149_apply_pitch_bend(base_freq, bend)
              IN  ym2149_set_pitch_bend_from(ym2149_set_frequency(m, i, bent_freq), bend, i + 1)
         ELSE ym2149_set_pitch_bend_from(m, bend, i + 1)

ym2149_set_pitch_bend(m, bend) == ym2149_set_pitch_bend_from(m, bend, 0)

ym2149_set_preset(m, preset) ==
    CASE preset = 0 -> ym2149_write_register(m, YM2149_SHAPE_ENV, YM2149_ENV_OFF)
      [] preset = 1 -> ym2149_write_register(m, YM2149_SHAPE_ENV, YM2149_ENV_SAWTOOTH)
      [] preset = 2 -> ym2149_write_register(m, YM2149_SHAPE_ENV, YM2149_ENV_TRIANGLE)
      [] preset = 3 -> ym2149_write_register(m, YM2149_SHAPE_ENV, YM2149_ENV_PULSE_DECAY)
      [] OTHER -> m

\* ym2149_interface.voice_count, through current_chip
voice_count(m) == IF m.chip = CHIP_YM2149 THEN YM2149_VOICES ELSE 0

----------------------------------------------------------------------------
(* synthesizer.c: voice allocation *)

RECURSIVE first_free_voice(_, _)
first_free_voice(m, i) ==
    IF i >= voice_count(m) THEN NO_VOICE
    ELSE IF m.voices[i].active = 0 THEN i
    ELSE first_free_voice(m, i + 1)

\* Variant of oldest_voice_scan: `<=` in place of `<`, so the last of equal stamps wins
RECURSIVE oldest_voice_scan_le(_, _, _, _)
oldest_voice_scan_le(m, i, oldest_voice, oldest_time) ==
    IF i >= voice_count(m) THEN oldest_voice
    ELSE IF m.voices[i].start_time <= oldest_time
         THEN oldest_voice_scan_le(m, i + 1, i, m.voices[i].start_time)
         ELSE oldest_voice_scan_le(m, i + 1, oldest_voice, oldest_time)

RECURSIVE oldest_voice_scan(_, _, _, _)
oldest_voice_scan(m, i, oldest_voice, oldest_time) ==
    IF i >= voice_count(m) THEN oldest_voice
    ELSE IF m.voices[i].start_time < oldest_time
         THEN oldest_voice_scan(m, i + 1, i, m.voices[i].start_time)
         ELSE oldest_voice_scan(m, i + 1, oldest_voice, oldest_time)

\* Variant of allocate_voice: no stealing, a full voice array yields no voice
allocate_voice_no_steal(m) ==
    IF m.chip = CHIP_NONE THEN NO_VOICE
    ELSE first_free_voice(m, 0)

allocate_voice(m) ==
    IF m.chip = CHIP_NONE THEN NO_VOICE
    ELSE IF first_free_voice(m, 0) # NO_VOICE THEN first_free_voice(m, 0)
    ELSE IF voice_count(m) = 0 THEN NO_VOICE
    ELSE oldest_voice_scan(m, 1, 0, m.voices[0].start_time)

\* Variant of find_voice_scan: the active flag is not tested
RECURSIVE find_voice_scan_any(_, _, _, _)
find_voice_scan_any(m, note, channel, i) ==
    IF i >= voice_count(m) THEN NO_VOICE
    ELSE IF /\ m.voices[i].midi_note = note
            /\ m.voices[i].channel = channel
         THEN i
         ELSE find_voice_scan_any(m, note, channel, i + 1)

RECURSIVE find_voice_scan(_, _, _, _)
find_voice_scan(m, note, channel, i) ==
    IF i >= voice_count(m) THEN NO_VOICE
    ELSE IF /\ m.voices[i].active # 0
            /\ m.voices[i].midi_note = note
            /\ m.voices[i].channel = channel
         THEN i
         ELSE find_voice_scan(m, note, channel, i + 1)

find_voice_by_note(m, note, channel) ==
    IF m.chip = CHIP_NONE THEN NO_VOICE
    ELSE find_voice_scan(m, note, channel, 0)

synthesizer_panic(m) ==
    IF m.chip # CHIP_NONE THEN ym2149_panic([m EXCEPT !.calls = Append(@, <<"panic", NO_VOICE>>)])
    ELSE m

----------------------------------------------------------------------------
(* chip_manager.c *)

\* Variants of chip_manager_set_chip

\* the incoming backend is selected and initialised before the outgoing one is silenced
chip_manager_set_chip_switch_first(m, chip_id) ==
    IF chip_id = CHIP_YM2149 /\ BitAnd(m.avail, CHIP_YM2149) # 0
    THEN LET m1 == ym2149_init([m EXCEPT !.chip = CHIP_YM2149,
                                        !.calls = @ \o << <<"select", CHIP_YM2149>>,
                                                         <<"init", NO_VOICE>> >>])
         IN  [m |-> IF m.chip # CHIP_NONE
                    THEN ym2149_all_off([m1 EXCEPT !.calls = Append(@, <<"all_off", NO_VOICE>>)])
                    ELSE m1,
              ret |-> 1]
    ELSE [m |-> IF m.chip # CHIP_NONE
                THEN ym2149_all_off([m EXCEPT !.calls = Append(@, <<"all_off", NO_VOICE>>)])
                ELSE m,
          ret |-> 0]

\* a failed selection drops the active backend
chip_manager_set_chip_failure_deselects(m, chip_id) ==
    LET m1 == IF m.chip # CHIP_NONE
              THEN ym2149_all_off([m EXCEPT !.calls = Append(@, <<"all_off", NO_VOICE>>)])
              ELSE m
    IN  IF chip_id = CHIP_YM2149 /\ BitAnd(m1.avail, CHIP_YM2149) # 0
        THEN [m |-> ym2149_init([m1 EXCEPT !.chip = CHIP_YM2149,
                                          !.calls = @ \o << <<"select", CHIP_YM2149>>,
                                                           <<"init", NO_VOICE>> >>]),
              ret |-> 1]
        ELSE [m |-> [m1 EXCEPT !.chip = CHIP_NONE], ret |-> 0]

\* chip_manager_set_chip: the machine after the call and the value returned;
\* the assignment to current_chip is logged as "select" between the calls
chip_manager_set_chip(m, chip_id) ==
    LET m1 == IF m.chip # CHIP_NONE
              THEN ym2149_all_off([m EXCEPT !.calls = Append(@, <<"all_off", NO_VOICE>>)])
              ELSE m
    IN  IF chip_id = CHIP_YM2149 /\ BitAnd(m1.avail, CHIP_YM2149) # 0
        THEN [m |-> ym2149_init([m1 EXCEPT !.chip = CHIP_YM2149,
                                          !.calls = @ \o << <<"select", CHIP_YM2149>>,
                                                           <<"init", NO_VOICE>> >>]),
              ret |-> 1]
        ELSE [m |-> m1, ret |-> 0]

\* Variant of chip_manager_detect_chips: YM2149 is entered whatever detection returned
chip_manager_detect_chips_assume_present(m, present) ==
    [m EXCEPT !.avail = BitOr(0, CHIP_YM2149)]

\* chip_manager_detect_chips; `present` is the outcome of detect_ym2149
chip_manager_detect_chips(m, present) ==
    LET m1 == [m EXCEPT !.avail = 0]
    IN  IF present THEN [m1 EXCEPT !.avail = BitOr(@, CHIP_YM2149)] ELSE m1

chip_manager_init(m, present) ==
    LET m1 == chip_manager_detect_chips([m EXCEPT !.chip = CHIP_NONE, !.avail = 0], present)
    IN  IF BitAnd(m1.avail, CHIP_YM2149) # 0
        THEN chip_manager_set_chip(m1, CHIP_YM2149).m
        ELSE m1

----------------------------------------------------------------------------
(* midi_driver.c: dispatcher *)

\* index (1-based) of the first controller entry with this cc_number, 0 if none
RECURSIVE cc_lookup(_, _, _)
cc_lookup(cc, number, i) ==
    IF i > Len(cc) THEN 0
    ELSE IF cc[i].cc_number = number THEN i
    ELSE cc_lookup(cc, number, i + 1)

cc_update(m, data1, data2) ==
    LET i == cc_lookup(m.cc, data1, 1)
    IN  IF i = 0 THEN m ELSE [m EXCEPT !.cc[i].value = data2]

\* Variant of first_active_voice: the active voice of the highest index
RECURSIVE first_active_voice_highest(_, _)
first_active_voice_highest(m, i) ==
    IF i >= voice_count(m) THEN NO_VOICE
    ELSE LET rest == first_active_voice_highest(m, i + 1)
         IN  IF rest # NO_VOICE THEN rest
             ELSE IF m.voices[i].active # 0 THEN i
             ELSE NO_VOICE

\* first active voice in ascending index order, NO_VOICE if none
RECURSIVE first_active_voice(_, _)
first_active_voice(m, i) ==
    IF i >= voice_count(m) THEN NO_VOICE
    ELSE IF m.voices[i].active # 0 THEN i
    ELSE first_active_voice(m, i + 1)

Called(m, op, voice) == [m EXCEPT !.calls = Append(@, <<op, voice>>)]

\* a call of a global operation logged with the argument it is handed
CalledWith(m, op, arg) == [m EXCEPT !.calls = Append(@, <<op, NO_VOICE, arg>>)]

\* Variant of dispatch_note_off: the result of find_voice_by_note is not tested
dispatch_note_off_unchecked(m, data1, channel) ==
    LET voice == find_voice_by_note(m, data1, channel)
    IN  ym2149_note_off(Called(m, "note_off", voice), voice)

dispatch_note_off(m, data1, channel) ==
    LET voice == find_voice_by_note(m, data1, channel)
    IN  IF voice # NO_VOICE THEN ym2149_note_off(Called(m, "note_off", voice), voice)
        ELSE m

\* Variant of dispatch_note_on: velocity 0 is not special, the note is allocated
dispatch_note_on_no_zero_velocity(m, data1, data2, channel) ==
    IF m.chip = CHIP_NONE THEN m
    ELSE LET voice == allocate_voice(m)
         IN  IF voice # NO_VOICE
             THEN ym2149_note_on(Called(m, "note_on", voice), voice, data1, data2, channel)
             ELSE m

dispatch_note_on(m, data1, data2, channel) ==
    IF m.chip = CHIP_NONE THEN m
    ELSE IF data2 = 0 THEN dispatch_note_off(m, data1, channel)
    ELSE LET voice == allocate_voice(m)
         IN  IF voice # NO_VOICE
             THEN ym2149_note_on(Called(m, "note_on", voice), voice, data1, data2, channel)
             ELSE m

dispatch_control_change(m, data1, data2) ==
    LET m1 == cc_update(m, data1, data2)
        v == first_active_voice(m1, 0)
    IN  IF m1.chip = CHIP_NONE THEN m1
        ELSE CASE data1 \in 1 .. 4 ->
                    IF v = NO_VOICE THEN m1
                    ELSE ym2149_set_volume(Called(m1, "set_volume", v), v,
                                           U8(U16(data2 * 15) \div 127))
               [] data1 = 5 ->
                    IF v = NO_VOICE THEN m1
                    ELSE ym2149_set_attack(Called(m1, "set_attack", v), v, data2)
               [] data1 = 6 ->
                    IF v = NO_VOICE THEN m1
                    ELSE ym2149_set_decay(Called(m1, "set_decay", v), v, data2)
               [] data1 = 7 ->
                    IF v = NO_VOICE THEN m1
                    ELSE ym2149_set_sustain(Called(m1, "set_sustain", v), v, data2)
               [] data1 = 8 ->
                    IF v = NO_VOICE THEN m1
                    ELSE ym2149_set_release(Called(m1, "set_release", v), v, data2)
               [] data1 = 9 -> ym2149_set_vibrato(Called(m1, "set_vibrato", NO_VOICE), data2)
               [] data1 = 10 -> ym2149_set_tremolo(Called(m1, "set_tremolo", NO_VOICE), data2)
               [] data1 = 11 ->
                    LET bend == (data2 - 64) * 128
                    IN  ym2149_set_pitch_bend(CalledWith(m1, "set_pitch_bend", bend), bend)
               [] data1 = 12 ->
                    ym2149_set_modulation(Called(m1, "set_modulation", NO_VOICE), data2)
               [] OTHER -> m1

\* Variant of midi_process_message: the pitch-bend data bytes are combined the
\* other way round, data1 as the high seven bits
midi_process_message_bend_swapped(m, status, data1, data2) ==
    LET channel == status % 16
        command == status - (status % 16)
    IN  CASE command = MIDI_NOTE_ON -> dispatch_note_on(m, data1, data2, channel)
          [] command = MIDI_NOTE_OFF ->
                IF m.chip # CHIP_NONE THEN dispatch_note_off(m, data1, channel) ELSE m
          [] command = MIDI_CONTROL_CHANGE -> dispatch_control_change(m, data1, data2)
          [] command = MIDI_PROGRAM_CHANGE ->
                IF m.chip # CHIP_NONE
                THEN ym2149_set_preset(Called(m, "set_preset", NO_VOICE), data1)
                ELSE m
          [] command = MIDI_PITCH_BEND ->
                IF m.chip # CHIP_NONE
                THEN LET bend == BitOr(data1 * 128, data2)
                     IN  ym2149_set_pitch_bend(CalledWith(m, "set_pitch_bend", bend - 8192),
                                               bend - 8192)
                ELSE m
          [] OTHER -> m

midi_process_message(m, status, data1, data2) ==
    LET channel == status % 16
        command == status - (status % 16)
    IN  CASE command = MIDI_NOTE_ON -> dispatch_note_on(m, data1, data2, channel)
          [] command = MIDI_NOTE_OFF ->
                IF m.chip # CHIP_NONE THEN dispatch_note_off(m, data1, channel) ELSE m
          [] command = MIDI_CONTROL_CHANGE -> dispatch_control_change(m, data1, data2)
          [] command = MIDI_PROGRAM_CHANGE ->
                IF m.chip # CHIP_NONE
                THEN ym2149_set_preset(Called(m, "set_preset", NO_VOICE), data1)
                ELSE m
          [] command = MIDI_PITCH_BEND ->
                IF m.chip # CHIP_NONE
                THEN LET bend == BitOr(data2 * 128, data1)
                     IN  ym2149_set_pitch_bend(CalledWith(m, "set_pitch_bend", bend - 8192),
                                               bend - 8192)
                ELSE m
          [] OTHER -> m

----------------------------------------------------------------------------
(* midi_driver.c: byte parser *)

InitialMidiState ==
    [status |-> 0, channel |-> 0, command |-> 0, data1 |-> 0, data2 |-> 0,
     expected_bytes |-> 0, byte_count |-> 0]

expected_bytes_for(command) ==
    CASE command \in {MIDI_NOTE_OFF, MIDI_NOTE_ON, MIDI_CONTROL_CHANGE, MIDI_PITCH_BEND} -> 2
      [] command = MIDI_PROGRAM_CHANGE -> 1
      [] OTHER -> 0

\* Variants of midi_process_byte with one step of the code changed

\* real-time bytes not filtered out first: they fall into the status branch
midi_process_byte_no_realtime(ms, m, byte) ==
    IF byte >= 128 THEN
        IF byte >= 240
        THEN [ms |-> [ms EXCEPT !.status = 0, !.byte_count = 0, !.expected_bytes = 0],
              m |-> m, out |-> <<>>]
        ELSE [ms |-> [ms EXCEPT !.status = byte,
                                !.channel = byte % 16,
                                !.command = byte - (byte % 16),
                                !.byte_count = 0,
                                !.expected_bytes = expected_bytes_for(byte - (byte % 16))],
              m |-> m, out |-> <<>>]
    ELSE IF ms.status # 0 THEN
        LET count == U8(ms.byte_count + 1)
            ms1 == [ms EXCEPT !.byte_count = count,
                              !.data1 = IF count = 1 THEN byte ELSE @,
                              !.data2 = IF count = 2 THEN byte ELSE @]
        IN  IF ms1.byte_count >= ms1.expected_bytes
            THEN [ms |-> [ms1 EXCEPT !.byte_count = 0],
                  m |-> midi_process_message(m, ms1.status, ms1.data1, ms1.data2),
                  out |-> << <<ms1.status, ms1.data1, ms1.data2>> >>]
            ELSE [ms |-> ms1, m |-> m, out |-> <<>>]
    ELSE [ms |-> ms, m |-> m, out |-> <<>>]

\* byte_count not reset after a message is dispatched
midi_process_byte_count_kept(ms, m, byte) ==
    IF byte >= 248 THEN [ms |-> ms, m |-> m, out |-> <<>>]
    ELSE IF byte >= 128 THEN
        IF byte >= 240
        THEN [ms |-> [ms EXCEPT !.status = 0, !.byte_count = 0, !.expected_bytes = 0],
              m |-> m, out |-> <<>>]
        ELSE [ms |-> [ms EXCEPT !.status = byte,
                                !.channel = byte % 16,
                                !.command = byte - (byte % 16),
                                !.byte_count = 0,
                                !.expected_bytes = expected_bytes_for(byte - (byte % 16))],
              m |-> m, out |-> <<>>]
    ELSE IF ms.status # 0 THEN
        LET count == U8(ms.byte_count + 1)
            ms1 == [ms EXCEPT !.byte_count = count,
                              !.data1 = IF count = 1 THEN byte ELSE @,
                              !.data2 = IF count = 2 THEN byte ELSE @]
        IN  IF ms1.byte_count >= ms1.expected_bytes
            THEN [ms |-> ms1,
                  m |-> midi_process_message(m, ms1.status, ms1.data1, ms1.data2),
                  out |-> << <<ms1.status, ms1.data1, ms1.data2>> >>]
            ELSE [ms |-> ms1, m |-> m, out |-> <<>>]
    ELSE [ms |-> ms, m |-> m, out |-> <<>>]

\* a system-common byte resets the count but leaves the running status
midi_process_byte_syscommon_keeps_status(ms, m, byte) ==
    IF byte >= 248 THEN [ms |-> ms, m |-> m, out |-> <<>>]
    ELSE IF byte >= 128 THEN
        IF byte >= 240
        THEN [ms |-> [ms EXCEPT !.byte_count = 0], m |-> m, out |-> <<>>]
        ELSE [ms |-> [ms EXCEPT !.status = byte,
                                !.channel = byte % 16,
                                !.command = byte - (byte % 16),
                                !.byte_count = 0,
                                !.expected_bytes = expected_bytes_for(byte - (byte % 16))],
              m |-> m, out |-> <<>>]
    ELSE IF ms.status # 0 THEN
        LET count == U8(ms.byte_count + 1)
            ms1 == [ms EXCEPT !.byte_count = count,
                              !.data1 = IF count = 1 THEN byte ELSE @,
                              !.data2 = IF count = 2 THEN byte ELSE @]
        IN  IF ms1.byte_count >= ms1.expected_bytes
            THEN [ms |-> [ms1 EXCEPT !.byte_count = 0],
                  m |-> midi_process_message(m, ms1.status, ms1.data1, ms1.data2),
                  out |-> << <<ms1.status, ms1.data1, ms1.data2>> >>]
            ELSE [ms |-> ms1, m |-> m, out |-> <<>>]
    ELSE [ms |-> ms, m |-> m, out |-> <<>>]

\* a channel-voice status byte does not reset byte_count
midi_process_byte_status_keeps_count(ms, m, byte) ==
    IF byte >= 248 THEN [ms |-> ms, m |-> m, out |-> <<>>]
    ELSE IF byte >= 128 THEN
        IF byte >= 240
        THEN [ms |-> [ms EXCEPT !.status = 0, !.byte_count = 0, !.expected_bytes = 0],
              m |-> m, out |-> <<>>]
        ELSE [ms |-> [ms EXCEPT !.status = byte,
                                !.channel = byte % 16,
                                !.command = byte - (byte % 16),
                                !.expected_bytes = expected_bytes_for(byte - (byte % 16))],
              m |-> m, out |-> <<>>]
    ELSE IF ms.status # 0 THEN
        LET count == U8(ms.byte_count + 1)
            ms1 == [ms EXCEPT !.byte_count = count,
                              !.data1 = IF count = 1 THEN byte ELSE @,
                              !.data2 = IF count = 2 THEN byte ELSE @]
        IN  IF ms1.byte_count >= ms1.expected_bytes
            THEN [ms |-> [ms1 EXCEPT !.byte_count = 0],
                  m |-> midi_process_message(m, ms1.status, ms1.data1, ms1.data2),
                  out |-> << <<ms1.status, ms1.data1, ms1.data2>> >>]
            ELSE [ms |-> ms1, m |-> m, out |-> <<>>]
    ELSE [ms |-> ms, m |-> m, out |-> <<>>]

\* midi_process_byte: the parser state and the machine after the byte, and the
\* messages handed to midi_process_message while processing it
\* a status byte of a command without an expected-bytes case is dropped: the
\* running status before it stays in force
midi_process_byte_unsupported_dropped(ms, m, byte) ==
    IF byte >= 248 THEN [ms |-> ms, m |-> m, out |-> <<>>]
    ELSE IF byte >= 128 THEN
        IF byte >= 240
        THEN [ms |-> [ms EXCEPT !.status = 0, !.byte_count = 0, !.expected_bytes = 0],
              m |-> m, out |-> <<>>]
        ELSE IF expected_bytes_for(byte - (byte % 16)) = 0
        THEN [ms |-> ms, m |-> m, out |-> <<>>]
        ELSE [ms |-> [ms EXCEPT !.status = byte,
                                !.channel = byte % 16,
                                !.command = byte - (byte % 16),
                                !.byte_count = 0,
                                !.expected_bytes = expected_bytes_for(byte - (byte % 16))],
              m |-> m, out |-> <<>>]
    ELSE IF ms.status # 0 THEN
        LET count == U8(ms.byte_count + 1)
            ms1 == [ms EXCEPT !.byte_count = count,
                              !.data1 = IF count = 1 THEN byte ELSE @,
                              !.data2 = IF count = 2 THEN byte ELSE @]
        IN  IF ms1.byte_count >= ms1.expected_bytes
            THEN [ms |-> [ms1 EXCEPT !.byte_count = 0],
                  m |-> midi_process_message(m, ms1.status, ms1.data1, ms1.data2),
                  out |-> << <<ms1.status, ms1.data1, ms1.data2>> >>]
            ELSE [ms |-> ms1, m |-> m, out |-> <<>>]
    ELSE [ms |-> ms, m |-> m, out |-> <<>>]

midi_process_byte(ms, m, byte) ==
    IF byte >= 248 THEN [ms |-> ms, m |-> m, out |-> <<>>]
    ELSE IF byte >= 128 THEN
        IF byte >= 240
        THEN [ms |-> [ms EXCEPT !.status = 0, !.byte_count = 0, !.expected_bytes = 0],
              m |-> m, out |-> <<>>]
        ELSE [ms |-> [ms EXCEPT !.status = byte,
                                !.channel = byte % 16,
                                !.command = byte - (byte % 16),
                                !.byte_count = 0,
                                !.expected_bytes = expected_bytes_for(byte - (byte % 16))],
              m |-> m, out |-> <<>>]
    ELSE IF ms.status # 0 THEN
        LET count == U8(ms.byte_count + 1)
            ms1 == [ms EXCEPT !.byte_count = count,
                              !.data1 = IF count = 1 THEN byte ELSE @,
                              !.data2 = IF count = 2 THEN byte ELSE @]
        IN  IF ms1.byte_count >= ms1.expected_bytes
            THEN [ms |-> [ms1 EXCEPT !.byte_count = 0],
                  m |-> midi_process_message(m, ms1.status, ms1.data1, ms1.data2),
                  out |-> << <<ms1.status, ms1.data1, ms1.data2>> >>]
            ELSE [ms |-> ms1, m |-> m, out |-> <<>>]
    ELSE [ms |-> ms, m |-> m, out |-> <<>>]

\* midi_driver_init: the controller table (8 knobs CC#1-8, 4 sliders CC#9-12)
InitialCcControls ==
    [i \in 1 .. 12 |-> [cc_number |-> i, value |-> 0, is_knob |-> IF i <= 8 THEN 1 ELSE 0]]

----------------------------------------------------------------------------
(* State, initial state and the handlers as actions *)

\* the globals as one record, with the logs cleared for the handler about to run
Machine ==
    [chip |-> current_chip, avail |-> available_chips, voices |-> ym2149_voices,
     extra |-> ym2149_voice_extra, counter |-> note_counter, regs |-> regs,
     cc |-> midi_cc_controls, log |-> <<>>, bus |-> <<>>, calls |-> <<>>]

Store(m) ==
    /\ current_chip' = m.chip
    /\ available_chips' = m.avail
    /\ ym2149_voices' = m.voices
    /\ ym2149_voice_extra' = m.extra
    /\ note_counter' = m.counter
    /\ regs' = m.regs
    /\ midi_cc_controls' = m.cc
    /\ port_log' = m.log
    /\ bus_log' = m.bus
    /\ calls' = m.calls

Op(name, a, b, c, ret) == [op |-> name, a |-> a, b |-> b, c |-> c, ret |-> ret]

\* note_counter at start-up: its declaration is not among the sources; the
\* specification describes one process-wide counter, taken here as a
\* zero-initialised static that only ym2149_note_on advances
InitialNoteCounter == 0

\* detect_ym2149 not running: interrupts enabled, nothing latched, no history
DetIdle ==
    [pc |-> "idle", i |-> 0, sub |-> 0, read_back |-> 0, detection_passed |-> 1,
     orig |-> <<0, 0, 0>>, ret |-> 0, iff |-> TRUE, latch |-> 0, sentinel |-> 255,
     stuck |-> {}, log |-> <<>>, runs |-> 0, irqs |-> 0, clean |-> TRUE,
     before |-> <<>>, first |-> <<>>]

\* the main loop about to call midi_driver_process_input for the first
\* time: midi_driver_init has set midi_mode and kb_last_note, nothing received
LoopIdle ==
    [pc |-> "midi", mode |-> MIDI_MODE_NONE, kb_last_note |-> NO_VOICE, rx |-> <<>>,
     arrived |-> 0, keys |-> 0, taken |-> 0, had |-> 0, since_poll |-> 0]

\* no system-common byte processed yet: the second parser is not running
TwinOff == [on |-> FALSE, ms |-> InitialMidiState, out |-> <<>>, same |-> TRUE]

\* ym2149_ports and config_initialized in static storage, before any call
ZeroPorts == [addr_port |-> 0, data_port |-> 0, config_initialized |-> 0]

port_config_init(p) == [p EXCEPT !.addr_port = 216, !.data_port = 208]

port_config_set(p, addr_port, data_port) ==
    [p EXCEPT !.addr_port = addr_port, !.data_port = data_port]

\* the lines of an opened file, from line i on, as fgets/strtok/strcmp see them:
\* <<key, value>> with value the result of strtoul; comment and blank lines and
\* lines without '=' are <<"", 0>>; the cast to unsigned char is U8
RECURSIVE port_config_scan(_, _, _, _)
port_config_scan(lines, i, addr_port, data_port) ==
    IF i > Len(lines) THEN <<addr_port, data_port>>
    ELSE IF lines[i][1] = "addr_port"
    THEN port_config_scan(lines, i + 1, U8(lines[i][2]), data_port)
    ELSE IF lines[i][1] = "data_port"
    THEN port_config_scan(lines, i + 1, addr_port, U8(lines[i][2]))
    ELSE port_config_scan(lines, i + 1, addr_port, data_port)

\* port_config_load_from_file: the ports after the call and the value returned;
\* file.opens is whether fopen succeeds
port_config_load_from_file(p, file) ==
    IF ~file.opens THEN [p |-> p, ret |-> 0]
    ELSE LET r == port_config_scan(file.lines, 1, 216, 208)
         IN  [p |-> port_config_set(p, r[1], r[2]), ret |-> 1]

\* the ports once synthesizer_init has returned: ym2149_init runs for the first
\* time there when a chip is detected and calls port_config_init; when none is
\* detected ym2149_init never runs, then or later
StartPorts(chip) ==
    IF chip = CHIP_YM2149
    THEN [port_config_init(ZeroPorts) EXCEPT !.config_initialized = 1]
    ELSE ZeroPorts

\* static storage before synthesizer_init runs
PowerOn ==
    [chip |-> CHIP_NONE, avail |-> 0,
     voices |-> [v \in VoiceIdx |-> ZeroVoice],
     extra |-> [v \in VoiceIdx |-> ZeroExtra],
     counter |-> InitialNoteCounter,
     regs |-> [r \in 0 .. YM2149_LAST_REG |-> 0],
     cc |-> InitialCcControls, log |-> <<>>, bus |-> <<>>, calls |-> <<>>]

\* the state synthesizer_init leaves: chip_manager_init, then midi_driver_init
Init ==
    /\ chip_present \in BOOLEAN
    /\ LET m == chip_manager_init(PowerOn, chip_present)
       IN  /\ current_chip = m.chip
           /\ available_chips = m.avail
           /\ ym2149_voices = m.voices
           /\ ym2149_voice_extra = m.extra
           /\ note_counter = m.counter
           /\ regs = m.regs
           /\ midi_cc_controls = m.cc
           /\ port_log = m.log
           /\ bus_log = m.bus
           /\ calls = m.calls
    /\ midi_state = InitialMidiState
    /\ dispatched = <<>>
    /\ pending = [st |-> 0, data |-> <<>>, cut |-> FALSE]
    /\ last_op = Op("init", 0, 0, 0, 0)
    /\ alloc_log = <<>>
    /\ det = DetIdle
    /\ loop = LoopIdle
    /\ twin = TwinOff
    /\ ym2149_ports = StartPorts(current_chip)

(* Inputs *)

Notes == {60, 61}
Channels == {0, 1}
Velocities == {0, 100}
\* the chip_id argument: the three defined kinds and two values naming no kind
ChipIds == {CHIP_NONE, CHIP_YM2149, CHIP_OPL3, 3, 255}

\* the (note, channel) pairs played: two notes on one channel, one note on two channels
Keys == {<<60, 0>>, <<61, 0>>, <<60, 1>>}

Messages ==
    {<<MIDI_NOTE_ON + k[2], k[1], v>> : k \in Keys, v \in Velocities}
    \cup {<<MIDI_NOTE_OFF + k[2], k[1], 0>> : k \in Keys}

\* a complete message handed to midi_process_message
Message(status, data1, data2) ==
    LET m == midi_process_message(Machine, status, data1, data2)
    IN  /\ m.counter <= MaxCounter
        /\ Store(m)
        /\ last_op' = Op("message", status, data1, data2, 0)
        /\ UNCHANGED <<parserVars, alloc_log, chip_present, ym2149_ports, det, loop, twin>>

Panic ==
    /\ Store(synthesizer_panic(Machine))
    /\ last_op' = Op("panic", 0, 0, 0, 0)
    /\ UNCHANGED <<parserVars, alloc_log, chip_present, ym2149_ports, det, loop, twin>>

SetChip(chip_id) ==
    LET r == chip_manager_set_chip(Machine, chip_id)
    IN  /\ Store(r.m)
        /\ last_op' = Op("set_chip", chip_id, 0, 0, r.ret)
        /\ UNCHANGED <<parserVars, alloc_log, chip_present, ym2149_ports, det, loop, twin>>

Reinit ==
    /\ Store(chip_manager_init(Machine, chip_present))
    /\ last_op' = Op("chip_manager_init", 0, 0, 0, 0)
    /\ UNCHANGED <<parserVars, alloc_log, chip_present, ym2149_ports, det, loop, twin>>

Next ==
    \/ \E msg \in Messages : Message(msg[1], msg[2], msg[3])
    \/ Panic
    \/ \E id \in ChipIds : SetChip(id)
    \/ Reinit

Spec == Init /\ [][Next]_vars

----------------------------------------------------------------------------
(* The byte parser fed from the serial receiver *)

ParserBytes == {0, 60, 128, 144, 160, 176, 192, 224, 240, 248}

\* `pending` after a byte: what the wire carried since the last status byte,
\* kept apart from the parser's own byte_count, data1 and data2; `cut` records
\* that this status byte interrupted a partially received message
PendingAfter(byte, r) ==
    IF byte >= 248 THEN pending
    ELSE IF byte >= 240 THEN [st |-> 0, data |-> <<>>, cut |-> FALSE]
    ELSE IF byte >= 128 THEN [st |-> byte, data |-> <<>>, cut |-> pending.data # <<>>]
    ELSE IF pending.st = 0 THEN pending
    ELSE IF r.out # <<>> THEN [pending EXCEPT !.data = <<>>]
    ELSE [pending EXCEPT !.data = Append(@, byte)]

\* midi_driver_process_input with a byte available: the whole of midi_process_byte
Byte(byte) ==
    LET r == midi_process_byte(midi_state, Machine, byte)
    IN  /\ r.m.counter <= MaxParserAllocs
        /\ midi_state' = r.ms
        /\ Store(r.m)
        /\ dispatched' = [i \in 1 .. Len(r.out) |->
                            [status |-> r.out[i][1], data1 |-> r.out[i][2],
                             data2 |-> r.out[i][3],
                             run |-> IF byte < 128 THEN Append(pending.data, byte)
                                     ELSE pending.data,
                             st |-> pending.st, cut |-> pending.cut]]
        /\ pending' = PendingAfter(byte, r)
        /\ last_op' = Op("byte", byte, midi_state.byte_count, 0, 0)
        /\ UNCHANGED <<alloc_log, chip_present, ym2149_ports, det, loop, twin>>

NextParser == \E b \in ParserBytes : Byte(b)

SpecParser == Init /\ [][NextParser]_vars

----------------------------------------------------------------------------
(* Parser claims *)

RealtimeBytes == 248 .. 255
SystemCommonBytes == 240 .. 247
ChannelVoiceBytes == 128 .. 239
DataBytes == 0 .. 127
ProbeBytes == {0, 60, 127, 128, 144, 160, 176, 192, 224, 240}

\* the data-byte count the MIDI wire format gives a status byte
WireCount(st) ==
    IF (st \div 16) \in {8, 9, 11, 14} THEN 2
    ELSE IF (st \div 16) = 12 THEN 1
    ELSE 0

LastByteWasData == last_op.op = "byte" /\ last_op.a < 128

\* C2: in every parser state a real-time byte 0xF8..0xFF dispatches nothing and
\* leaves the parser state (and everything else) unchanged, so the bytes that
\* follow it are processed exactly as if it had not been received.
C2_RealtimeTransparent ==
    /\ \A rt \in RealtimeBytes :
          LET r == midi_process_byte(midi_state, Machine, rt)
          IN  /\ r.out = <<>>
              /\ r.ms = midi_state
              /\ r.m = Machine
    /\ \A rt \in {248, 255}, b \in ProbeBytes :
          LET r == midi_process_byte(midi_state, Machine, rt)
          IN  midi_process_byte(r.ms, r.m, b) = midi_process_byte(midi_state, Machine, b)

\* a real-time byte has just been processed between the data bytes of a message
C2_Witness ==
    /\ last_op.op = "byte" /\ last_op.a \in RealtimeBytes
    /\ last_op.b = 1 /\ midi_state.byte_count = 1
    /\ pending.data # <<>>
    /\ dispatched = <<>>

\* C3: under a running status with wire count n (1 or 2), every run of n data
\* bytes yields exactly one message carrying the running status and those n
\* bytes in arrival order; the received count is then 0 again and the running
\* status is kept; fewer than n bytes yield none.
C3_RunningStatus ==
    (pending.st # 0 /\ WireCount(pending.st) >= 1) =>
        /\ Len(pending.data) < WireCount(pending.st)
        /\ midi_state.status = pending.st
        /\ midi_state.byte_count = Len(pending.data)
        /\ (LastByteWasData /\ pending.data # <<>>) => dispatched = <<>>
        /\ (LastByteWasData /\ pending.data = <<>>) =>
              /\ Len(dispatched) = 1
              /\ dispatched[1].status = pending.st
              /\ Len(dispatched[1].run) = WireCount(pending.st)
              /\ dispatched[1].data1 = dispatched[1].run[1]
              /\ WireCount(pending.st) = 2 => dispatched[1].data2 = dispatched[1].run[2]

\* a second message under the same running status has just been dispatched,
\* the data bytes of the two messages differing
C3_Witness ==
    /\ LastByteWasData
    /\ pending.st = MIDI_NOTE_ON /\ pending.data = <<>>
    /\ Len(dispatched) = 1
    /\ dispatched[1].run = <<60, 0>>
    /\ midi_state.status = MIDI_NOTE_ON /\ midi_state.byte_count = 0
    /\ calls = << <<"note_off", 0>> >>

\* C4: a system-common byte 0xF0..0xF7 dispatches nothing and clears the running
\* status and the accumulation; while no running status is active every data
\* byte is discarded: no message, no change of the parser state.
C4_SystemCommonClears ==
    /\ \A sc \in SystemCommonBytes :
          LET r == midi_process_byte(midi_state, Machine, sc)
          IN  /\ r.out = <<>>
              /\ r.m = Machine
              /\ r.ms.status = 0 /\ r.ms.byte_count = 0 /\ r.ms.expected_bytes = 0
    /\ pending.st = 0 =>
          /\ midi_state.status = 0
          /\ midi_state.byte_count = 0
          /\ LastByteWasData => dispatched = <<>>
          /\ \A d \in DataBytes :
                midi_process_byte(midi_state, Machine, d)
                    = [ms |-> midi_state, m |-> Machine, out |-> <<>>]

\* a data byte has just been discarded after a system-common byte ended a
\* running status under which data had been received
C4_Witness ==
    /\ LastByteWasData /\ last_op.a = 60
    /\ pending.st = 0
    /\ midi_state.status = 0 /\ midi_state.data1 = 60
    /\ dispatched = <<>>

\* C5: a channel-voice status byte 0x80..0xEF dispatches nothing, becomes the
\* running status and resets the accumulation; every dispatched message carries
\* the most recent status byte and only data bytes received after it.
C5_StatusInterrupts ==
    /\ \A s \in ChannelVoiceBytes :
          LET r == midi_process_byte(midi_state, Machine, s)
          IN  /\ r.out = <<>>
              /\ r.m = Machine
              /\ r.ms.status = s /\ r.ms.byte_count = 0
              /\ r.ms.channel = s % 16 /\ r.ms.command = (s \div 16) * 16
              /\ r.ms.expected_bytes = WireCount(s)
    /\ \A i \in 1 .. Len(dispatched) :
          LET d == dispatched[i]
          IN  /\ d.status = d.st
              /\ Len(d.run) >= 1
              /\ Len(d.run) <= 2
              /\ d.data1 = d.run[1]
              /\ WireCount(d.st) = 2 => (Len(d.run) = 2 /\ d.data2 = d.run[2])

\* a message has just been dispatched under a status byte that interrupted a
\* partially received message of another kind
C5_Witness ==
    /\ Len(dispatched) = 1
    /\ dispatched[1].cut
    /\ dispatched[1].status = MIDI_NOTE_ON
    /\ dispatched[1].run = <<60, 60>>
    /\ calls = << <<"note_on", 0>> >>

----------------------------------------------------------------------------
(* allocate_voice as a function of the voice array *)

StampedVoices ==
    [VoiceIdx -> {[active |-> a, midi_note |-> 60, velocity |-> 100, channel |-> 0,
                   start_time |-> t] : a \in {0, 1}, t \in 0 .. MaxStamp}]

InitAllocFn ==
    /\ chip_present = TRUE
    /\ LET m == chip_manager_init(PowerOn, chip_present)
       IN  /\ current_chip = m.chip
           /\ available_chips = m.avail
           /\ ym2149_voice_extra = m.extra
           /\ note_counter = MaxStamp + 1
           /\ regs = m.regs
           /\ midi_cc_controls = m.cc
           /\ port_log = m.log
           /\ bus_log = m.bus
           /\ calls = m.calls
    /\ ym2149_voices \in StampedVoices
    /\ midi_state = InitialMidiState
    /\ dispatched = <<>>
    /\ pending = [st |-> 0, data |-> <<>>, cut |-> FALSE]
    /\ last_op = Op("init", 0, 0, 0, 0)
    /\ alloc_log = <<>>
    /\ det = DetIdle
    /\ loop = LoopIdle
    /\ twin = TwinOff
    /\ ym2149_ports = StartPorts(current_chip)

ApplyAllocate ==
    /\ alloc_log = <<>>
    /\ alloc_log' = <<allocate_voice(Machine)>>
    /\ last_op' = Op("allocate_voice", 0, 0, 0, allocate_voice(Machine))
    /\ UNCHANGED <<synthVars, parserVars, chip_present, ym2149_ports, det, loop, twin>>

SpecAllocFn == InitAllocFn /\ [][ApplyAllocate]_vars

InactiveVoices == {v \in VoiceIdx : ym2149_voices[v].active = 0}

\* C6: with a backend selected, allocate_voice returns the lowest inactive index
\* when some voice is inactive; when all are active it returns a voice of minimum
\* start_time, the lowest index among those sharing the minimum.
C6_AllocateVoice ==
    (alloc_log # <<>> /\ current_chip # CHIP_NONE) =>
        LET r == alloc_log[1]
        IN  IF InactiveVoices # {}
            THEN r \in InactiveVoices /\ \A v \in InactiveVoices : r <= v
            ELSE /\ r \in VoiceIdx
                 /\ \A v \in VoiceIdx :
                       ym2149_voices[r].start_time <= ym2149_voices[v].start_time
                 /\ \A v \in VoiceIdx :
                       v < r => ym2149_voices[v].start_time > ym2149_voices[r].start_time

\* all voices active, voices 1 and 2 share the minimum stamp: voice 1 is returned
C6_Witness ==
    /\ alloc_log = <<1>>
    /\ InactiveVoices = {}
    /\ ym2149_voices[0].start_time = 2
    /\ ym2149_voices[1].start_time = 1
    /\ ym2149_voices[2].start_time = 1

----------------------------------------------------------------------------
(* Successive allocations as the dispatcher makes them *)

\* a NoteOn with velocity > 0: allocate_voice, then note_on on the index returned
AllocStep(note, velocity, channel) ==
    /\ Len(alloc_log) < MaxAllocs
    /\ Store(midi_process_message(Machine, MIDI_NOTE_ON + channel, note, velocity))
    /\ alloc_log' = Append(alloc_log, allocate_voice(Machine))
    /\ last_op' = Op("message", MIDI_NOTE_ON + channel, note, velocity, 0)
    /\ UNCHANGED <<parserVars, chip_present, ym2149_ports, det, loop, twin>>

NextAllocSeq == \E n \in Notes, c \in Channels : AllocStep(n, 100, c)

SpecAllocSeq == Init /\ [][NextAllocSeq]_vars

\* C7: from all voices inactive, the first three allocations return three
\* distinct voice indices; the fourth, made while all three are active, returns
\* the voice whose start_time is smallest.
C7_ThreeThenSteal ==
    /\ [](current_chip # CHIP_NONE =>
            /\ \A i \in 1 .. Len(alloc_log) : alloc_log[i] \in VoiceIdx
            /\ \A i, j \in 1 .. Len(alloc_log) :
                  (i < j /\ j <= 3) => alloc_log[i] # alloc_log[j]
            /\ Len(alloc_log) >= 3 => InactiveVoices = {})
    /\ [][(current_chip # CHIP_NONE /\ Len(alloc_log) = 3 /\ Len(alloc_log') = 4) =>
            LET r == alloc_log'[4]
            IN  /\ r \in VoiceIdx
                /\ \A v \in VoiceIdx :
                      ym2149_voices[r].start_time <= ym2149_voices[v].start_time
                /\ calls' = << <<"note_on", r>> >>
                /\ ym2149_voices'[r].start_time = note_counter]_vars

\* four allocations made: voices 0, 1, 2, then voice 0 again (the oldest)
C7_Witness ==
    /\ current_chip = CHIP_YM2149
    /\ alloc_log = <<0, 1, 2, 0>>
    /\ ym2149_voices[0].start_time = 3
    /\ InactiveVoices = {}

----------------------------------------------------------------------------
(* Dispatcher and allocator claims over the running program *)

ActiveVoices == {v \in VoiceIdx : ym2149_voices[v].active # 0}

NoteOnCalled(cs, v) == \E i \in 1 .. Len(cs) : cs[i] = <<"note_on", v>>

\* C1: at most one active voice matches any (note, channel) pair.
C1_UniqueNoteChannel ==
    \A v, w \in ActiveVoices :
        (/\ ym2149_voices[v].midi_note = ym2149_voices[w].midi_note
         /\ ym2149_voices[v].channel = ym2149_voices[w].channel) => v = w

\* C8: every allocation stamps its voice with the value of note_counter, which
\* exceeds every stamp stored before and never decreases (not across a backend
\* re-selection or re-initialisation either); two active voices never carry
\* the same stamp.
C8_StampsIncrease ==
    /\ [](\A v, w \in ActiveVoices :
             ym2149_voices[v].start_time = ym2149_voices[w].start_time => v = w)
    /\ [](\A v \in VoiceIdx :
             \/ ym2149_voices[v].start_time < note_counter
             \/ ym2149_voices[v] = ZeroVoice)
    /\ [][/\ note_counter' >= note_counter
          /\ \A v \in VoiceIdx :
                NoteOnCalled(calls', v) =>
                    /\ ym2149_voices'[v].start_time >= note_counter
                    /\ ym2149_voices'[v].start_time < note_counter']_vars

\* a voice has just been allocated while another, stamped earlier, is active
C8_Witness ==
    /\ last_op.op = "message"
    /\ calls = << <<"note_on", 1>> >>
    /\ ActiveVoices = {0, 1}
    /\ ym2149_voices[1].start_time = 3
    /\ ym2149_voices[0].start_time = 2
    /\ note_counter = 4

ProbeNotes == {60, 61, 62}
ProbeChannels == {0, 1, 2}

\* C9: in every reachable state NoteOn(note, velocity 0, channel) leaves exactly
\* the voice array, register contents and register writes that
\* NoteOff(note, channel) leaves.
C9_ZeroVelocityIsNoteOff ==
    \A n \in ProbeNotes, c \in ProbeChannels, rel \in {0, 64} :
        LET a == midi_process_message(Machine, MIDI_NOTE_ON + c, n, 0)
            b == midi_process_message(Machine, MIDI_NOTE_OFF + c, n, rel)
        IN  /\ a.voices = b.voices
            /\ a.log = b.log
            /\ a.regs = b.regs
            /\ a.calls = b.calls
            /\ a = b

\* a NoteOn with velocity 0 has just released a sounding voice
C9_Witness ==
    /\ last_op.op = "message"
    /\ last_op.a = MIDI_NOTE_ON /\ last_op.b = 60 /\ last_op.c = 0
    /\ calls = << <<"note_off", 1>> >>
    /\ port_log = << <<YM2149_LEVEL_B, 0>> >>
    /\ ym2149_voices[1].active = 0
    /\ ym2149_voices[0].active = 1

\* C10: find_voice_by_note returns only an active voice storing that note and
\* channel, and 0xFF when the active backend has no such voice; after
\* note_off(v) it does not return v for v's former note and channel.
C10_FindVoiceByNote ==
    /\ \A n \in ProbeNotes, c \in ProbeChannels :
          LET r == find_voice_by_note(Machine, n, c)
              matching == {v \in ActiveVoices :
                              /\ v < voice_count(Machine)
                              /\ ym2149_voices[v].midi_note = n
                              /\ ym2149_voices[v].channel = c}
          IN  IF matching = {} THEN r = NO_VOICE ELSE r \in matching
    /\ \A v \in VoiceIdx :
          find_voice_by_note(ym2149_note_off(Machine, v),
                             ym2149_voices[v].midi_note, ym2149_voices[v].channel) # v
    /\ \A i \in 1 .. Len(calls) :
          calls[i][1] = "note_off" =>
              find_voice_by_note(Machine, ym2149_voices[calls[i][2]].midi_note,
                                 ym2149_voices[calls[i][2]].channel) # calls[i][2]

\* a NoteOff has just released voice 0, whose note and channel no voice holds now
C10_Witness ==
    /\ last_op.op = "message" /\ last_op.a = MIDI_NOTE_OFF /\ last_op.b = 60
    /\ calls = << <<"note_off", 0>> >>
    /\ ym2149_voices[0].midi_note = 60 /\ ym2149_voices[0].channel = 0
    /\ ym2149_voices[1].active = 1
    /\ find_voice_by_note(Machine, 60, 0) = NO_VOICE

----------------------------------------------------------------------------
(* Dispatch of Note On *)

\* the voice stealing takes: smallest start_time, lowest index among equal stamps
OldestVoice ==
    CHOOSE v \in VoiceIdx :
        \A w \in VoiceIdx :
            \/ ym2149_voices[v].start_time < ym2149_voices[w].start_time
            \/ /\ ym2149_voices[v].start_time = ym2149_voices[w].start_time
               /\ v <= w

\* C11: with a backend selected whose voice_count is positive, a dispatched
\* Note On with velocity > 0 is never dropped: afterwards one voice is active
\* and holds that note, velocity and channel, every other voice's stored state
\* is unchanged, and when all voices were active before, the voice that was
\* replaced is exactly the one with the oldest allocation.
C11_NoteOnNeverDropped ==
    [][(/\ last_op'.op = "message"
        /\ last_op'.a \div 16 = MIDI_NOTE_ON \div 16
        /\ last_op'.c > 0
        /\ current_chip # CHIP_NONE
        /\ voice_count(Machine) > 0)
       => \E v \in VoiceIdx :
             /\ v < voice_count(Machine)
             /\ ym2149_voices'[v].active = 1
             /\ ym2149_voices'[v].midi_note = last_op'.b
             /\ ym2149_voices'[v].velocity = last_op'.c
             /\ ym2149_voices'[v].channel = last_op'.a % 16
             /\ calls' = << <<"note_on", v>> >>
             /\ \A w \in VoiceIdx \ {v} :
                   /\ ym2149_voices'[w] = ym2149_voices[w]
                   /\ ym2149_voice_extra'[w] = ym2149_voice_extra[w]
             /\ (ActiveVoices = VoiceIdx => v = OldestVoice)
             /\ (ActiveVoices # VoiceIdx => ym2149_voices[v].active = 0)]_vars

\* a Note On has just stolen voice 0, the oldest of three sounding voices
C11_Witness ==
    /\ last_op.op = "message" /\ last_op.a = MIDI_NOTE_ON /\ last_op.c = 100
    /\ calls = << <<"note_on", 0>> >>
    /\ ActiveVoices = VoiceIdx
    /\ ym2149_voices[0].midi_note = last_op.b
    /\ ym2149_voices[0].start_time > ym2149_voices[2].start_time
    /\ ym2149_voices[2].start_time > ym2149_voices[1].start_time

----------------------------------------------------------------------------
(* Notes together with controllers and pitch bend *)

\* one key, the five per-voice controllers at full value, one pitch bend
ControlMessages ==
    {<<MIDI_NOTE_ON, 60, 100>>, <<MIDI_NOTE_ON, 60, 0>>, <<MIDI_NOTE_OFF, 60, 0>>}
    \cup {<<MIDI_CONTROL_CHANGE, n, 127>> : n \in {1, 5, 6, 7, 8}}
    \cup {<<MIDI_PITCH_BEND, 127, 127>>}

Control(status, data1, data2) ==
    LET m == midi_process_message(Machine, status, data1, data2)
    IN  /\ m.counter <= MaxControlAllocs
        /\ Store(m)
        /\ last_op' = Op("message", status, data1, data2, 0)
        /\ UNCHANGED <<parserVars, alloc_log, chip_present, ym2149_ports, det, loop, twin>>

NextControl == \E msg \in ControlMessages : Control(msg[1], msg[2], msg[3])

SpecControl == Init /\ [][NextControl]_vars

\* the backend operations that take a voice index
VoiceOps ==
    {"note_on", "note_off", "set_volume", "set_attack", "set_decay", "set_sustain",
     "set_release"}

\* C12: every voice index the dispatcher passes to note_on, note_off,
\* set_volume, set_attack, set_decay, set_sustain or set_release is below the
\* selected backend's voice_count; the none value 0xFF is never passed.
C12_VoiceIndexInRange ==
    \A i \in 1 .. Len(calls) :
        calls[i][1] \in VoiceOps =>
            /\ calls[i][2] < voice_count(Machine)
            /\ calls[i][2] # NO_VOICE

\* a controller has just been applied to voice 1, the first active voice
C12_Witness ==
    /\ last_op.op = "message" /\ last_op.a = MIDI_CONTROL_CHANGE /\ last_op.b = 8
    /\ calls = << <<"set_release", 1>> >>
    /\ ym2149_voices[0].active = 0
    /\ ym2149_voices[1].active = 1

----------------------------------------------------------------------------
(* Backend selection *)

\* C13: in a successful chip_manager_set_chip made while a backend is active,
\* all_off of the outgoing backend completes before the active reference
\* changes and init of the incoming backend follows; no note_on happens in
\* between.
C13_SilenceBeforeSwitch ==
    [][(/\ last_op'.op = "set_chip"
        /\ last_op'.ret = 1
        /\ current_chip # CHIP_NONE)
       => LET off == ym2149_all_off(Machine)
              init == ym2149_init([off EXCEPT !.log = <<>>])
          IN  /\ calls' = << <<"all_off", NO_VOICE>>, <<"select", last_op'.a>>,
                             <<"init", NO_VOICE>> >>
              /\ \A v \in VoiceIdx : off.voices[v].active = 0
              /\ off.chip = current_chip
              /\ port_log' = off.log \o init.log
              /\ current_chip' = last_op'.a]_vars

\* YM2149 has just been re-selected while it was the active backend
C13_Witness ==
    /\ last_op.op = "set_chip" /\ last_op.a = CHIP_YM2149 /\ last_op.ret = 1
    /\ calls = << <<"all_off", NO_VOICE>>, <<"select", CHIP_YM2149>>, <<"init", NO_VOICE>> >>
    /\ current_chip = CHIP_YM2149
    /\ Len(port_log) > 3
    /\ port_log[1] = <<YM2149_LEVEL_A, 0>>

\* C14: chip_manager_set_chip with an unknown kind, or with a kind that is not
\* in the detected set (CHIP_OPL3 included), returns 0 and leaves the active
\* backend reference as it was before the call.
C14_FailedSelectionKeepsBackend ==
    [][(/\ last_op'.op = "set_chip"
        /\ \/ last_op'.a \notin {CHIP_YM2149, CHIP_OPL3}
           \/ BitAnd(available_chips, last_op'.a) = 0)
       => /\ last_op'.ret = 0
          /\ current_chip' = current_chip
          /\ available_chips' = available_chips
          /\ \A i \in 1 .. Len(calls') : calls'[i][1] \notin {"select", "init"}]_vars

\* CHIP_OPL3 has just been refused while YM2149 stays the active backend
C14_Witness ==
    /\ last_op.op = "set_chip" /\ last_op.a = CHIP_OPL3 /\ last_op.ret = 0
    /\ current_chip = CHIP_YM2149
    /\ BitAnd(available_chips, CHIP_OPL3) = 0

----------------------------------------------------------------------------
(* ym2149.c: detect_ym2149, one port access per step *)

test_values == <<0, 85, 170, 255>>

\* the registers checkpointed on entry and restored on exit, in the code's order
SavedRegs == <<YM2149_MIXER, YM2149_LEVEL_A, YM2149_LEVEL_B>>

\* outp(YM2149_ADDR_PORT, v): the chip latches a register address
BusOutAddr(d, v) ==
    [d EXCEPT !.latch = v,
              !.log = Append(@, [dir |-> "out", port |-> "addr", value |-> v, iff |-> d.iff])]

\* outp(YM2149_DATA_PORT, v) as the driver sees it
BusOutData(d, v) ==
    [d EXCEPT !.log = Append(@, [dir |-> "out", port |-> "data", value |-> v, iff |-> d.iff])]

\* what a data write does to the chip: the latched register takes the value
\* when a chip is there and the register holds writes
ChipStore(r, d, v) ==
    IF chip_present /\ d.latch \in DOMAIN r /\ d.latch \notin d.stuck
    THEN [r EXCEPT ![d.latch] = v]
    ELSE r

\* inp(YM2149_ADDR_PORT): the latched register of a chip, or whatever an
\* empty bus returns
BusIn(r, d) ==
    IF chip_present
    THEN IF d.latch \in DOMAIN r THEN r[d.latch] ELSE 255
    ELSE d.sentinel

BusRead(d, v) ==
    [d EXCEPT !.log = Append(@, [dir |-> "in", port |-> "addr", value |-> v, iff |-> d.iff])]

\* Variant of ReadBackMatches: the value read is compared with itself
ReadBackMatches_self(read_back, expected, mask) ==
    BitAnd(read_back, mask) = BitAnd(read_back, mask)

\* (read_back & mask) == (test_values[i] & mask)
ReadBackMatches(read_back, expected, mask) ==
    BitAnd(read_back, mask) = BitAnd(expected, mask)

DetectFrame ==
    UNCHANGED <<midi_state, midi_cc_controls, current_chip, available_chips,
                ym2149_voices, ym2149_voice_extra, note_counter, port_log, bus_log, calls,
                dispatched, pending, alloc_log, chip_present, ym2149_ports, loop, twin>>

\* entry: locals initialised
DetectCall ==
    /\ det.pc = "idle"
    /\ det.runs < MaxDetectRuns
    /\ det' = [det EXCEPT !.pc = "di", !.i = 0, !.sub = 0, !.read_back = 0,
                          !.detection_passed = 1, !.orig = <<0, 0, 0>>,
                          !.log = <<>>, !.before = regs]
    /\ last_op' = Op("detect_call", 0, 0, 0, 0)
    /\ UNCHANGED regs
    /\ DetectFrame

\* Variant of DetectDi: the interrupt mask is left as it was
DetectDi_no_mask ==
    /\ det.pc = "di"
    /\ det' = [det EXCEPT !.pc = "save", !.i = 0, !.sub = 0]
    /\ last_op' = Op("di", 0, 0, 0, 0)
    /\ UNCHANGED regs
    /\ DetectFrame

\* __asm__("di")
DetectDi ==
    /\ det.pc = "di"
    /\ det' = [det EXCEPT !.pc = "save", !.i = 0, !.sub = 0, !.iff = FALSE]
    /\ last_op' = Op("di", 0, 0, 0, 0)
    /\ UNCHANGED regs
    /\ DetectFrame

\* orig_mixer, orig_level_a, orig_level_b = ym2149_read_register(...)
DetectSave ==
    /\ det.pc = "save"
    /\ LET reg == SavedRegs[det.i + 1]
       IN  IF det.sub = 0
           THEN det' = [BusOutAddr(det, reg) EXCEPT !.sub = 1]
           ELSE LET v == BusIn(regs, det)
                    d1 == [BusRead(det, v) EXCEPT !.orig[det.i + 1] = v, !.sub = 0]
                IN  det' = IF det.i = 2 THEN [d1 EXCEPT !.pc = "test1", !.i = 0]
                           ELSE [d1 EXCEPT !.i = det.i + 1]
    /\ last_op' = Op("save", SavedRegs[det.i + 1], det.sub, 0, 0)
    /\ UNCHANGED regs
    /\ DetectFrame

\* Tests 1 and 2: each pattern is written to the register and read back; a
\* mismatch in the compared bits clears detection_passed and leaves the loop
DetectTest(k) ==
    /\ det.pc = (IF k = 1 THEN "test1" ELSE "test2")
    /\ LET reg == IF k = 1 THEN YM2149_MIXER ELSE YM2149_LEVEL_A
           mask == IF k = 1 THEN DETECT_MIXER_MASK ELSE DETECT_LEVEL_MASK
           value == test_values[det.i + 1]
           after == IF k = 1 THEN "test2" ELSE "test3"
       IN  CASE det.sub = 0 ->
                  /\ det' = [BusOutAddr(det, reg) EXCEPT !.sub = 1]
                  /\ UNCHANGED regs
             [] det.sub = 1 ->
                  /\ det' = [BusOutData(det, value) EXCEPT !.sub = 2]
                  /\ regs' = ChipStore(regs, det, value)
             [] det.sub = 2 ->
                  /\ det' = [BusOutAddr(det, reg) EXCEPT !.sub = 3]
                  /\ UNCHANGED regs
             [] OTHER ->
                  /\ LET v == BusIn(regs, det)
                         d1 == [BusRead(det, v) EXCEPT !.read_back = v, !.sub = 0]
                     IN  det' = IF ~ReadBackMatches(v, value, mask)
                                THEN [d1 EXCEPT !.detection_passed = 0, !.pc = "restore",
                                                !.i = 0]
                                ELSE IF det.i = Len(test_values) - 1
                                THEN [d1 EXCEPT !.pc = after, !.i = 0]
                                ELSE [d1 EXCEPT !.i = det.i + 1]
                  /\ UNCHANGED regs
    /\ last_op' = Op("test", k, det.i, det.sub, 0)
    /\ DetectFrame

\* Test 3: 0x42 is written to the channel A fine-tune register and read back
DetectTest3 ==
    /\ det.pc = "test3"
    /\ CASE det.sub = 0 ->
              /\ det' = [BusOutAddr(det, YM2149_FREQ_A_LSB) EXCEPT !.sub = 1]
              /\ UNCHANGED regs
         [] det.sub = 1 ->
              /\ det' = [BusOutData(det, DETECT_FREQ_VALUE) EXCEPT !.sub = 2]
              /\ regs' = ChipStore(regs, det, DETECT_FREQ_VALUE)
         [] det.sub = 2 ->
              /\ det' = [BusOutAddr(det, YM2149_FREQ_A_LSB) EXCEPT !.sub = 3]
              /\ UNCHANGED regs
         [] OTHER ->
              /\ LET v == BusIn(regs, det)
                     d1 == [BusRead(det, v) EXCEPT !.read_back = v, !.sub = 0, !.i = 0,
                                                   !.pc = "restore"]
                 IN  det' = IF v # DETECT_FREQ_VALUE
                            THEN [d1 EXCEPT !.detection_passed = 0]
                            ELSE d1
              /\ UNCHANGED regs
    /\ last_op' = Op("test", 3, 0, det.sub, 0)
    /\ DetectFrame

\* Variant of DetectRestore: the value written back is one more than the value saved
DetectRestore_off_by_one ==
    /\ det.pc = "restore"
    /\ LET reg == SavedRegs[det.i + 1]
           value == U8(det.orig[det.i + 1] + 1)
       IN  IF det.sub = 0
           THEN /\ det' = [BusOutAddr(det, reg) EXCEPT !.sub = 1]
                /\ UNCHANGED regs
           ELSE /\ det' = IF det.i = 2
                          THEN [BusOutData(det, value) EXCEPT !.sub = 0, !.i = 0, !.pc = "ei"]
                          ELSE [BusOutData(det, value) EXCEPT !.sub = 0, !.i = det.i + 1]
                /\ regs' = ChipStore(regs, det, value)
    /\ last_op' = Op("restore", SavedRegs[det.i + 1], det.sub, 0, 0)
    /\ DetectFrame

\* ym2149_write_register(YM2149_MIXER, orig_mixer), then LEVEL_A, then LEVEL_B
DetectRestore ==
    /\ det.pc = "restore"
    /\ LET reg == SavedRegs[det.i + 1]
           value == det.orig[det.i + 1]
       IN  IF det.sub = 0
           THEN /\ det' = [BusOutAddr(det, reg) EXCEPT !.sub = 1]
                /\ UNCHANGED regs
           ELSE /\ det' = IF det.i = 2
                          THEN [BusOutData(det, value) EXCEPT !.sub = 0, !.i = 0, !.pc = "ei"]
                          ELSE [BusOutData(det, value) EXCEPT !.sub = 0, !.i = det.i + 1]
                /\ regs' = ChipStore(regs, det, value)
    /\ last_op' = Op("restore", SavedRegs[det.i + 1], det.sub, 0, 0)
    /\ DetectFrame

\* __asm__("ei")
DetectEi ==
    /\ det.pc = "ei"
    /\ det' = [det EXCEPT !.pc = "ret", !.iff = TRUE]
    /\ last_op' = Op("ei", 0, 0, 0, 0)
    /\ UNCHANGED regs
    /\ DetectFrame

\* return detection_passed; the outcome of the first call is kept for comparison
DetectReturn ==
    /\ det.pc = "ret"
    /\ det' = [det EXCEPT !.pc = "idle", !.ret = det.detection_passed,
                          !.runs = det.runs + 1,
                          !.first = IF det.runs = 0
                                    THEN <<[ret |-> det.detection_passed, regs |-> regs,
                                            latch |-> det.latch]>>
                                    ELSE det.first]
    /\ last_op' = Op("detect_return", 0, 0, 0, det.detection_passed)
    /\ UNCHANGED regs
    /\ DetectFrame

\* an interrupt is taken when interrupts are enabled; its handler runs to
\* completion and uses the sound chip's bus (here: it reprograms the noise period)
Interrupt ==
    /\ det.iff
    /\ det.irqs < MaxInterrupts
    /\ LET d1 == [det EXCEPT !.latch = YM2149_FREQ_NOISE]
       IN  /\ regs' = ChipStore(regs, d1, 1)
           /\ det' = [d1 EXCEPT !.irqs = det.irqs + 1, !.clean = FALSE]
    /\ last_op' = Op("interrupt", 0, 0, 0, 0)
    /\ DetectFrame

\* register contents a present chip may hold when detection starts
DetectRegs ==
    {[PowerOn.regs EXCEPT ![YM2149_FREQ_A_LSB] = f, ![YM2149_MIXER] = mx,
                          ![YM2149_LEVEL_A] = la, ![YM2149_LEVEL_B] = lb] :
        f \in {DETECT_FREQ_VALUE, 123}, mx \in {56, 255}, la \in {15, 26}, lb \in {0, 16}}

\* registers of a present chip that do not take writes (a faulty part)
StuckSets == {{}, {YM2149_LEVEL_A}, {YM2149_FREQ_A_LSB}}

\* detect_ym2149 is called from chip_manager_detect_chips before any backend
\* is selected; an absent chip is an empty bus that returns one fixed byte
InitDetect ==
    /\ chip_present \in BOOLEAN
    /\ current_chip = PowerOn.chip
    /\ available_chips = PowerOn.avail
    /\ ym2149_voices = PowerOn.voices
    /\ ym2149_voice_extra = PowerOn.extra
    /\ note_counter = PowerOn.counter
    /\ midi_cc_controls = PowerOn.cc
    /\ port_log = <<>>
    /\ bus_log = <<>>
    /\ calls = <<>>
    /\ IF chip_present
       THEN /\ regs \in DetectRegs
            /\ \E st \in StuckSets : det = [DetIdle EXCEPT !.stuck = st]
       ELSE /\ regs = PowerOn.regs
            /\ \E b \in 0 .. 255 : det = [DetIdle EXCEPT !.sentinel = b]
    /\ midi_state = InitialMidiState
    /\ dispatched = <<>>
    /\ pending = [st |-> 0, data |-> <<>>, cut |-> FALSE]
    /\ last_op = Op("init", 0, 0, 0, 0)
    /\ alloc_log = <<>>
    /\ loop = LoopIdle
    /\ twin = TwinOff
    /\ ym2149_ports = StartPorts(current_chip)

NextDetect ==
    \/ DetectCall
    \/ DetectDi
    \/ DetectSave
    \/ \E k \in {1, 2} : DetectTest(k)
    \/ DetectTest3
    \/ DetectRestore
    \/ DetectEi
    \/ DetectReturn
    \/ Interrupt

SpecDetect == InitDetect /\ [][NextDetect]_vars

----------------------------------------------------------------------------
(* Detection claims *)

\* a call of detect_ym2149 has returned and no interrupt handler ran since the
\* first call began
DetectReturnedClean == det.pc = "idle" /\ det.runs >= 1 /\ det.clean

\* C15: detect_ym2149 is side-effect-free: run against a present chip in any
\* register state it returns with every chip register holding the value it
\* held before the call, whether detection succeeds or fails.
C15_DetectSideEffectFree ==
    (chip_present /\ DetectReturnedClean) => regs = det.before

\* a failing input for C15: a present chip whose channel A fine-tune register
\* held a value other than 0x42 has been probed once, successfully
C15_FailingInput ==
    /\ chip_present /\ DetectReturnedClean /\ det.runs = 1 /\ det.ret = 1
    /\ det.before[YM2149_FREQ_A_LSB] = 123
    /\ regs[YM2149_FREQ_A_LSB] = DETECT_FREQ_VALUE

\* C16: when every port read returns one fixed byte whatever was written (no
\* chip on the bus), detect_ym2149 returns 0, for every value of that byte.
C16_AbsentChipNegative ==
    (~chip_present /\ det.pc = "idle" /\ det.runs >= 1) => det.ret = 0

\* detection has returned on an empty bus that reads 0x42, the value test 3 expects
C16_Witness ==
    /\ ~chip_present /\ det.pc = "idle" /\ det.runs = 1
    /\ det.sentinel = DETECT_FREQ_VALUE
    /\ det.ret = 0
    /\ det.read_back = DETECT_FREQ_VALUE

\* the steps between di and ei
MaskedWindow == {"save", "test1", "test2", "test3", "restore", "ei"}

\* C17: every port access of the checkpoint, test and restore phases happens
\* with interrupts masked, no interrupt handler runs between di and ei, and
\* interrupts are enabled again whenever the routine has returned, also when a
\* test stage failed early.
C17_DetectMasksInterrupts ==
    /\ [](/\ \A k \in 1 .. Len(det.log) : det.log[k].iff = FALSE
          /\ det.pc \in MaskedWindow => ~det.iff
          /\ det.pc \in {"ret", "idle"} => det.iff)
    /\ [][det'.irqs # det.irqs => det.pc \notin MaskedWindow]_vars

\* detection failed at test 2 on a chip whose level register is faulty, has
\* returned with interrupts enabled, and an interrupt was taken outside the window
C17_Witness ==
    /\ chip_present /\ det.stuck = {YM2149_LEVEL_A}
    /\ det.pc = "idle" /\ det.runs = 1 /\ det.ret = 0
    /\ det.iff
    /\ det.irqs = 1
    /\ Len(det.log) > 6

\* C19: detect_ym2149 is idempotent: two calls in a row return what one call
\* returns and leave the registers as one call leaves them.
C19_DetectIdempotent ==
    (det.pc = "idle" /\ det.runs >= 2 /\ det.clean) =>
        /\ det.ret = det.first[1].ret
        /\ regs = det.first[1].regs
        /\ det.latch = det.first[1].latch

\* a present chip has been probed twice in a row, successfully both times
C19_Witness ==
    /\ chip_present /\ det.pc = "idle" /\ det.runs = 2 /\ det.clean
    /\ det.ret = 1
    /\ det.first[1].ret = 1
    /\ regs[YM2149_FREQ_A_LSB] = DETECT_FREQ_VALUE

----------------------------------------------------------------------------
(* Start-up without a chip *)

\* one message of every kind the dispatcher knows, and two it does not
EveryKindOfMessage ==
    {<<MIDI_NOTE_ON, 60, 100>>, <<MIDI_NOTE_ON + 1, 61, 0>>, <<MIDI_NOTE_OFF, 60, 0>>,
     <<MIDI_CONTROL_CHANGE, 1, 127>>, <<MIDI_CONTROL_CHANGE, 5, 64>>,
     <<MIDI_CONTROL_CHANGE, 11, 127>>, <<MIDI_PROGRAM_CHANGE, 1, 0>>,
     <<MIDI_PITCH_BEND, 0, 64>>, <<160, 60, 1>>, <<208, 5, 0>>}

\* C18: when YM2149 detection is negative at start-up, YM2149 is not in the
\* available set, chip_manager_init leaves no active backend, and every MIDI
\* event dispatched afterwards performs no port write and changes no voice
\* state, while the control loop goes on taking events.
C18_NoChipNoEffect ==
    /\ [](~chip_present =>
            /\ BitAnd(available_chips, CHIP_YM2149) = 0
            /\ current_chip = CHIP_NONE
            /\ \A msg \in EveryKindOfMessage :
                  LET m == midi_process_message(Machine, msg[1], msg[2], msg[3])
                  IN  /\ m.log = <<>>
                      /\ m.calls = <<>>
                      /\ m.voices = ym2149_voices
                      /\ m.extra = ym2149_voice_extra
                      /\ m.regs = regs
                      /\ m.counter = note_counter
                      /\ m.chip = CHIP_NONE
            /\ ENABLED (\E msg \in Messages : Message(msg[1], msg[2], msg[3])))
    /\ [][(~chip_present /\ last_op'.op = "message")
          => /\ port_log' = <<>>
             /\ calls' = <<>>
             /\ UNCHANGED <<ym2149_voices, ym2149_voice_extra, regs, note_counter,
                            current_chip, available_chips>>]_vars

\* a Note On has been dispatched after a selection attempt failed for lack of a chip
C18_Witness ==
    /\ ~chip_present
    /\ last_op.op = "message" /\ last_op.a = MIDI_NOTE_ON /\ last_op.c = 100
    /\ current_chip = CHIP_NONE
    /\ available_chips = 0
    /\ port_log = <<>>
    /\ \A v \in VoiceIdx : ym2149_voices[v].active = 0

----------------------------------------------------------------------------
(* ym2149_set_volume called directly, between notes and attack changes *)

VolumeValues == {0, 9, 15, 16, 200, 255}

VolumeMessages ==
    {<<MIDI_NOTE_ON, 60, 100>>, <<MIDI_NOTE_OFF, 60, 0>>, <<MIDI_CONTROL_CHANGE, 5, 127>>}

\* current_chip->set_volume(voice, volume); last_op keeps the level register's
\* content and the voice's envelope flag from before the call
SetVolume(voice, volume) ==
    /\ current_chip # CHIP_NONE
    /\ Len(alloc_log) < MaxVolumeCalls
    /\ Store(ym2149_set_volume(Called(Machine, "set_volume", voice), voice, volume))
    /\ last_op' = Op("set_volume", voice, volume, regs[YM2149_LEVEL_A + voice],
                     ym2149_voice_extra[voice].envelope_enabled)
    /\ alloc_log' = Append(alloc_log, voice)
    /\ UNCHANGED <<parserVars, chip_present, ym2149_ports, det, loop, twin>>

NextVolume ==
    \/ \E msg \in VolumeMessages : Control(msg[1], msg[2], msg[3])
    \/ \E v \in VoiceIdx, x \in VolumeValues : SetVolume(v, x)

SpecVolume == Init /\ [][NextVolume]_vars

\* bit 4 of a level register: volume taken from the envelope generator
EnvelopeModeBit(x) == (x \div YM2149_VOLUME_ENV) % 2

\* C20 as stated: set_volume(v, value) writes min(value, 15) as the volume
\* bits of v's level register and leaves the envelope-mode bit of voice v, bit
\* 4 of that register, as it was before the call.
C20_SetVolumeKeepsModeBit ==
    last_op.op = "set_volume" =>
        LET level == regs[YM2149_LEVEL_A + last_op.a]
        IN  /\ level % 16 = (IF last_op.b > 15 THEN 15 ELSE last_op.b)
            /\ EnvelopeModeBit(level) = EnvelopeModeBit(last_op.c)

\* C20 amended: set_volume(v, value) writes min(value, 15) as the volume bits
\* of v's level register and sets the register's envelope-mode bit from the
\* voice's stored envelope_enabled flag, which it leaves unchanged; no other
\* bit of the register is set and no other register is written.
C20_SetVolumeWritesFlag ==
    last_op.op = "set_volume" =>
        LET level == regs[YM2149_LEVEL_A + last_op.a]
            flag == ym2149_voice_extra[last_op.a].envelope_enabled
        IN  /\ level % 16 = (IF last_op.b > 15 THEN 15 ELSE last_op.b)
            /\ flag = last_op.ret
            /\ EnvelopeModeBit(level) = (IF flag # 0 THEN 1 ELSE 0)
            /\ level < 32
            /\ port_log = << <<YM2149_LEVEL_A + last_op.a, level>> >>

\* set_volume(0, 200) has just run on a voice in envelope mode whose level
\* register note_off had zeroed: the register now reads 15 with bit 4 set
C20_Witness ==
    /\ last_op.op = "set_volume" /\ last_op.a = 0 /\ last_op.b = 200
    /\ last_op.c = 0
    /\ last_op.ret = 1
    /\ regs[YM2149_LEVEL_A] = 31

----------------------------------------------------------------------------
(* Pitch bend: ym2149_set_pitch_bend between notes *)

\* the 12-bit tone period programmed for a voice: fine register, coarse register
TonePeriod(r, voice) ==
    r[YM2149_FREQ_A_LSB + (voice * 2)] + 256 * r[YM2149_FREQ_A_MSB + (voice * 2)]

\* current_chip->set_pitch_bend(bend); last_op keeps whether voice 0's period
\* differed from the table period of its note before the call
SetPitchBend(bend) ==
    /\ current_chip # CHIP_NONE
    /\ Store(ym2149_set_pitch_bend(CalledWith(Machine, "set_pitch_bend", bend), bend))
    /\ last_op' = Op("set_pitch_bend", bend,
                     IF TonePeriod(regs, 0) = ym2149_note_to_freq(ym2149_voices[0].midi_note)
                     THEN 0 ELSE 1, 0, 0)
    /\ UNCHANGED <<parserVars, alloc_log, chip_present, ym2149_ports, det, loop, twin>>

\* two notes, one below the table; the wheel at its centre and at both ends;
\* controller 11 at its centre
BendMessages ==
    {<<MIDI_NOTE_ON, 60, 100>>, <<MIDI_NOTE_ON, 23, 100>>,
     <<MIDI_NOTE_OFF, 60, 0>>, <<MIDI_NOTE_OFF, 23, 0>>}
    \cup {<<MIDI_PITCH_BEND, 0, 64>>, <<MIDI_PITCH_BEND, 127, 127>>,
          <<MIDI_PITCH_BEND, 0, 0>>}
    \cup {<<MIDI_CONTROL_CHANGE, 11, 64>>, <<MIDI_CONTROL_CHANGE, 11, 0>>}

BendProbe == {-8192, -1, 0, 1, 4096, 8191}

NextBend ==
    \/ \E msg \in BendMessages : Control(msg[1], msg[2], msg[3])
    \/ \E bend \in BendProbe : SetPitchBend(bend)

SpecBend == Init /\ [][NextBend]_vars

\* the last handler called set_pitch_bend with a bend of 0: directly, from the
\* wheel at 0x2000, or from controller 11 at 64
BendZeroApplied ==
    \/ last_op.op = "set_pitch_bend" /\ last_op.a = 0
    \/ /\ last_op.op = "message"
       /\ calls = << <<"set_pitch_bend", NO_VOICE, 0>> >>
       /\ \/ last_op.a = MIDI_PITCH_BEND /\ last_op.b = 0 /\ last_op.c = 64
          \/ last_op.a = MIDI_CONTROL_CHANGE /\ last_op.b = 11 /\ last_op.c = 64

\* C21: set_pitch_bend(0) leaves every active voice's programmed tone period
\* equal to its unbent value, the table period of the voice's stored MIDI note.
C21_BendZeroIsUnbent ==
    BendZeroApplied =>
        \A v \in VoiceIdx :
            ym2149_voices[v].active # 0 =>
                TonePeriod(regs, v) = note_tp[
                    (IF ym2149_voices[v].midi_note < 24 THEN 24
                     ELSE IF ym2149_voices[v].midi_note > 96 THEN 96
                     ELSE ym2149_voices[v].midi_note) - 23]

\* set_pitch_bend(0) has just run with two voices sounding, voice 0 having
\* been bent away from its table period before
C21_Witness ==
    /\ last_op.op = "set_pitch_bend" /\ last_op.a = 0
    /\ ym2149_voices[0].active = 1 /\ ym2149_voices[0].midi_note = 60
    /\ ym2149_voices[1].active = 1 /\ ym2149_voices[1].midi_note = 23
    /\ last_op.b = 1
    /\ TonePeriod(regs, 0) = 440
    /\ TonePeriod(regs, 1) = 3522

----------------------------------------------------------------------------
(* ym2149_apply_pitch_bend over the note range: one voice sounding any MIDI *)
(* note, bent by values spread over the 14-bit range                       *)

BendStep == 257

\* -8192, then every BendStep-th value, with the centre, its neighbours and
\* the top of the range
BendValues ==
    {-8192 + (k * BendStep) : k \in 0 .. (16383 \div BendStep)} \cup {-1, 0, 1, 8191}

\* after start-up with a chip, the first Note On of any note 0..127
InitBendFn ==
    /\ chip_present = TRUE
    /\ \E note \in 0 .. 127 :
         LET m == midi_process_message(chip_manager_init(PowerOn, chip_present),
                                       MIDI_NOTE_ON, note, 100)
         IN  /\ current_chip = m.chip
             /\ available_chips = m.avail
             /\ ym2149_voices = m.voices
             /\ ym2149_voice_extra = m.extra
             /\ note_counter = m.counter
             /\ regs = m.regs
             /\ midi_cc_controls = m.cc
             /\ port_log = m.log
             /\ bus_log = m.bus
             /\ calls = m.calls
             /\ last_op = Op("message", MIDI_NOTE_ON, note, 100, 0)
    /\ midi_state = InitialMidiState
    /\ dispatched = <<>>
    /\ pending = [st |-> 0, data |-> <<>>, cut |-> FALSE]
    /\ alloc_log = <<>>
    /\ det = DetIdle
    /\ loop = LoopIdle
    /\ twin = TwinOff
    /\ ym2149_ports = StartPorts(current_chip)

NextBendFn == \E bend \in BendValues : SetPitchBend(bend)

SpecBendFn == InitBendFn /\ [][NextBendFn]_vars

\* C22: for every bend in -8192..8191 and every stored MIDI note 0..127, the
\* tone period set_pitch_bend programs for an active voice is
\* base - (base * bend) / 72000 (quotient truncated toward zero) clamped into
\* [1, 4095]; it is never 0 and never wider than 12 bits.
C22_BentPeriodFormula ==
    last_op.op = "set_pitch_bend" =>
        \A v \in VoiceIdx :
            ym2149_voices[v].active # 0 =>
                LET base == ym2149_note_to_freq(ym2149_voices[v].midi_note)
                    prod == base * last_op.a
                    quot == IF prod >= 0 THEN prod \div 72000 ELSE -((-prod) \div 72000)
                    raw == base - quot
                    want == IF raw < 1 THEN 1 ELSE IF raw > 4095 THEN 4095 ELSE raw
                IN  /\ TonePeriod(regs, v) = want
                    /\ TonePeriod(regs, v) \in 1 .. 4095
                    /\ regs[YM2149_FREQ_A_MSB + (v * 2)] < 16

\* note 0 (played as note 24, period 3522) bent fully down: 3522 + 400
C22_Witness ==
    /\ last_op.op = "set_pitch_bend" /\ last_op.a = -8192
    /\ ym2149_voices[0].active = 1 /\ ym2149_voices[0].midi_note = 0
    /\ last_op.b = 0
    /\ TonePeriod(regs, 0) = 3922

----------------------------------------------------------------------------
(* ym2149_note_to_freq over the whole note range *)

\* a Note On of any MIDI note on channel 0
PlayNote(note) ==
    LET m == midi_process_message(Machine, MIDI_NOTE_ON, note, 100)
    IN  /\ m.counter <= MaxPeriodNotes
        /\ Store(m)
        /\ last_op' = Op("message", MIDI_NOTE_ON, note, 100, 0)
        /\ UNCHANGED <<parserVars, alloc_log, chip_present, ym2149_ports, det, loop, twin>>

NextPeriod == \E note \in 0 .. 127 : PlayNote(note)

SpecPeriod == Init /\ [][NextPeriod]_vars

\* C23: the tone period is monotonically non-increasing in the note number
\* over 0..127 (notes outside 24..96 being clamped): the period programmed
\* for the note n just played is at most the period of every note n1 <= n
\* and at least the period of every note n2 >= n.
C23_PeriodMonotonic ==
    (last_op.op = "message" /\ Len(calls) = 1 /\ calls[1][1] = "note_on") =>
        LET P == TonePeriod(regs, calls[1][2])
        IN  \A n \in 0 .. 127 :
                /\ n <= last_op.b => ym2149_note_to_freq(n) >= P
                /\ n >= last_op.b => ym2149_note_to_freq(n) <= P

\* note 61 has just been programmed on voice 0 with the period 416, between
\* the periods of notes 60 and 62
C23_Witness ==
    /\ last_op.op = "message" /\ last_op.b = 61
    /\ calls = << <<"note_on", 0>> >>
    /\ TonePeriod(regs, 0) = 416
    /\ ym2149_note_to_freq(60) > 416
    /\ ym2149_note_to_freq(62) < 416

----------------------------------------------------------------------------
(* Panic *)

\* C24: after panic every voice is inactive, the three level registers hold
\* 0 and the mixer register holds the all-disabled value, the mixer write
\* being the last write of the operation. A backend is selected in every
\* reachable state in which a chip is on the bus; without one panic writes
\* nothing and no voice is active.
C24_PanicSilences ==
    /\ chip_present => current_chip # CHIP_NONE
    /\ last_op.op = "panic" =>
        /\ \A v \in VoiceIdx : ym2149_voices[v].active = 0
        /\ IF current_chip # CHIP_NONE
           THEN /\ regs[YM2149_LEVEL_A] = 0
                /\ regs[YM2149_LEVEL_B] = 0
                /\ regs[YM2149_LEVEL_C] = 0
                /\ regs[YM2149_MIXER] = YM2149_MIX_ALL_OFF
                /\ Len(port_log) > 0
                /\ port_log[Len(port_log)] = <<YM2149_MIXER, YM2149_MIX_ALL_OFF>>
                /\ \A i \in 1 .. (Len(port_log) - 1) : port_log[i][1] # YM2149_MIXER
           ELSE port_log = <<>>

\* panic has just run after all three voices had been allocated (their
\* stamps 0, 1, 2 remain)
C24_Witness ==
    /\ last_op.op = "panic"
    /\ current_chip = CHIP_YM2149
    /\ \A v \in VoiceIdx : ym2149_voices[v].start_time = v /\ ym2149_voices[v].velocity = 100
    /\ port_log = << <<YM2149_LEVEL_A, 0>>, <<YM2149_LEVEL_B, 0>>, <<YM2149_LEVEL_C, 0>>,
                     <<YM2149_MIXER, YM2149_MIX_ALL_OFF>> >>

----------------------------------------------------------------------------
(* main.c: the main loop, polling the serial receiver and the console in turn *)

\* midi_driver_available: bios_auxist reads the receiver's Rx Character
\* Available bit
midi_driver_available(mode, rx) ==
    IF mode # MIDI_MODE_BIOS THEN 0 ELSE IF rx # <<>> THEN 1 ELSE 0

\* Variant of midi_driver_process_input: reads while a byte is available
RECURSIVE midi_driver_process_input_drain(_, _, _, _)
midi_driver_process_input_drain(mode, rx, ms, m) ==
    IF mode # MIDI_MODE_BIOS THEN [rx |-> rx, ms |-> ms, m |-> m, out |-> <<>>, taken |-> 0]
    ELSE IF midi_driver_available(mode, rx) # 0
         THEN LET r == midi_process_byte(ms, m, Head(rx))
                  t == midi_driver_process_input_drain(mode, Tail(rx), r.ms, r.m)
              IN  [t EXCEPT !.out = r.out \o @, !.taken = @ + 1]
         ELSE [rx |-> rx, ms |-> ms, m |-> m, out |-> <<>>, taken |-> 0]

\* midi_driver_process_input: rx is the receiver's unread bytes, taken the
\* number of bytes the call read from it
midi_driver_process_input(mode, rx, ms, m) ==
    IF mode # MIDI_MODE_BIOS THEN [rx |-> rx, ms |-> ms, m |-> m, out |-> <<>>, taken |-> 0]
    ELSE IF midi_driver_available(mode, rx) # 0
         THEN LET r == midi_process_byte(ms, m, Head(rx))   \* midi_driver_read_byte
              IN  [rx |-> Tail(rx), ms |-> r.ms, m |-> r.m, out |-> r.out, taken |-> 1]
         ELSE [rx |-> rx, ms |-> ms, m |-> m, out |-> <<>>, taken |-> 0]

\* midi_keyboard_process_key for the keys typed here: 'm' is the note B of the
\* lower row at the default octave 5 and velocity 100; 'p' and 'k' are bound
\* to nothing
midi_keyboard_process_key(m, kb_last_note, key) ==
    IF key = "m"
    THEN LET m1 == IF kb_last_note # 255
                   THEN midi_process_message(m, MIDI_NOTE_OFF, kb_last_note, 0)
                   ELSE m
             midi_note == (5 * 12) + 11
         IN  [m |-> midi_process_message(m1, MIDI_NOTE_ON, midi_note, 100),
              kb_last_note |-> midi_note]
    ELSE [m |-> m, kb_last_note |-> kb_last_note]

\* process_command for the keys typed here
process_command(m, mode, cmd) ==
    CASE cmd = "p" -> [m |-> synthesizer_panic(m), mode |-> mode]
      [] cmd = "k" -> [m |-> m, mode |-> MIDI_MODE_KEYBOARD]
      [] cmd = "m" -> IF mode = MIDI_MODE_BIOS
                      THEN [m |-> synthesizer_panic(m), mode |-> MIDI_MODE_NONE]
                      ELSE [m |-> m, mode |-> MIDI_MODE_BIOS]
      [] OTHER -> [m |-> m, mode |-> mode]

\* hardware: the serial receiver takes in a byte
Receive(byte) ==
    /\ loop.arrived < MaxSerialBytes
    /\ loop' = [loop EXCEPT !.rx = Append(@, byte), !.arrived = @ + 1]
    /\ last_op' = Op("receive", byte, 0, 0, 0)
    /\ UNCHANGED <<synthVars, parserVars, alloc_log, chip_present, ym2149_ports, det, twin>>

\* main loop, first half: midi_driver_process_input()
LoopMidi ==
    /\ loop.pc = "midi"
    /\ LET t == midi_driver_process_input(loop.mode, loop.rx, midi_state, Machine)
       IN  /\ midi_state' = t.ms
           /\ Store(t.m)
           /\ IF t.taken = 1
              THEN LET byte == Head(loop.rx)
                   IN  /\ dispatched' = [i \in 1 .. Len(t.out) |->
                                [status |-> t.out[i][1], data1 |-> t.out[i][2],
                                 data2 |-> t.out[i][3],
                                 run |-> IF byte < 128 THEN Append(pending.data, byte)
                                         ELSE pending.data,
                                 st |-> pending.st, cut |-> pending.cut]]
                       /\ pending' = PendingAfter(byte, t)
              ELSE UNCHANGED <<dispatched, pending>>
           /\ loop' = [loop EXCEPT !.pc = "console", !.rx = t.rx, !.taken = t.taken,
                                   !.had = Len(loop.rx), !.since_poll = @ + t.taken]
           /\ last_op' = Op("process_input", t.taken, 0, 0, 0)
    /\ UNCHANGED <<alloc_log, chip_present, ym2149_ports, det, twin>>

\* main loop, second half: kbhit() found nothing
LoopNoKey ==
    /\ loop.pc = "console"
    /\ loop' = [loop EXCEPT !.pc = "midi", !.since_poll = 0]
    /\ last_op' = Op("kbhit", 0, 0, 0, 0)
    /\ UNCHANGED <<synthVars, parserVars, alloc_log, chip_present, ym2149_ports, det, twin>>

\* main loop, second half: kbhit() found a key, getch() returned it
LoopKey(cmd) ==
    /\ loop.pc = "console"
    /\ loop.keys < MaxKeys
    /\ LET r == IF cmd = "cr" THEN [m |-> Machine, mode |-> loop.mode, kb |-> loop.kb_last_note]
                ELSE IF loop.mode = MIDI_MODE_KEYBOARD
                THEN IF cmd = "esc"
                     THEN [m |-> synthesizer_panic(Machine), mode |-> MIDI_MODE_NONE,
                           kb |-> loop.kb_last_note]
                     ELSE LET k == midi_keyboard_process_key(Machine, loop.kb_last_note, cmd)
                          IN  [m |-> k.m, mode |-> loop.mode, kb |-> k.kb_last_note]
                ELSE LET c == process_command(Machine, loop.mode, cmd)
                     IN  [m |-> c.m, mode |-> c.mode, kb |-> loop.kb_last_note]
       IN  /\ Store(r.m)
           /\ loop' = [loop EXCEPT !.pc = "midi", !.since_poll = 0, !.keys = @ + 1,
                                   !.mode = r.mode, !.kb_last_note = r.kb]
    /\ last_op' = Op("kbhit", 1, 0, 0, 0)
    /\ UNCHANGED <<parserVars, alloc_log, chip_present, ym2149_ports, det, twin>>

\* the bytes of a Note On message arrive in any order; the keys typed are the
\* BIOS-mode toggle, panic, keyboard mode, escape and return
NextLoop ==
    \/ \E b \in {MIDI_NOTE_ON, 60, 100} : Receive(b)
    \/ LoopMidi
    \/ LoopNoKey
    \/ \E k \in {"m", "p", "k", "esc", "cr"} : LoopKey(k)

SpecLoop == Init /\ [][NextLoop]_vars

\* C25: each call of midi_driver_process_input reads at most one byte from
\* the serial receiver, reads none when no byte is available or when the
\* input mode is not BIOS, and does not wait for input (with nothing received
\* the call still completes); the main loop polls the console between any
\* two consecutive protocol bytes it processes.
C25_OneBytePerTurn ==
    /\ loop.taken <= 1
    /\ last_op.op = "process_input" =>
         /\ Len(loop.rx) = loop.had - loop.taken
         /\ (loop.had = 0 \/ loop.mode # MIDI_MODE_BIOS) => loop.taken = 0
    /\ (loop.pc = "midi" /\ loop.rx = <<>>) => ENABLED LoopMidi
    /\ loop.since_poll <= 1

\* in BIOS mode, with two bytes waiting, the call has taken one, the Note On
\* status byte, and left the other
C25_Witness ==
    /\ last_op.op = "process_input"
    /\ loop.mode = MIDI_MODE_BIOS
    /\ loop.had = 2 /\ loop.taken = 1 /\ Len(loop.rx) = 1
    /\ midi_state.status = MIDI_NOTE_ON
    /\ loop.since_poll = 1

----------------------------------------------------------------------------
(* The two-phase bus protocol *)

\* C26: every register write of a backend operation is an address-port write
\* of the register index immediately followed by the data-port write of the
\* value, with no other port access between the two; no data-port write
\* occurs without the address write of its own register directly before it.
C26_TwoPhaseWrites ==
    /\ Len(bus_log) = 2 * Len(port_log)
    /\ \A k \in 1 .. Len(port_log) :
         /\ bus_log[(2 * k) - 1] = <<"addr", port_log[k][1]>>
         /\ bus_log[2 * k] = <<"data", port_log[k][2]>>
    /\ \A i \in 1 .. Len(bus_log) :
         bus_log[i][1] = "data" => (i > 1 /\ bus_log[i - 1][1] = "addr")

\* set_attack has just written the envelope period pair and the level
\* register of voice 0: three address/data pairs
C26_Witness ==
    /\ last_op.op = "message" /\ last_op.a = MIDI_CONTROL_CHANGE /\ last_op.b = 5
    /\ calls = << <<"set_attack", 0>> >>
    /\ Len(bus_log) = 6
    /\ bus_log[1] = <<"addr", YM2149_FREQ_ENV_LSB>>
    /\ bus_log[2] = <<"data", 255>>
    /\ bus_log[5] = <<"addr", YM2149_LEVEL_A>>

----------------------------------------------------------------------------
(* Re-initialisation between notes, attack changes and panic *)

\* chip_manager_init called again; last_op keeps the mixer register, voice
\* 0's envelope flag and voice 0's active flag from before the call
ReinitFrom ==
    /\ Store(chip_manager_init(Machine, chip_present))
    /\ last_op' = Op("chip_manager_init", regs[YM2149_MIXER],
                     ym2149_voice_extra[0].envelope_enabled, ym2149_voices[0].active, 0)
    /\ UNCHANGED <<parserVars, alloc_log, chip_present, ym2149_ports, det, loop, twin>>

NextReinit ==
    \/ \E msg \in VolumeMessages : Control(msg[1], msg[2], msg[3])
    \/ Panic
    \/ ReinitFrom

SpecReinit == Init /\ [][NextReinit]_vars

\* C27: chip_manager_init called again in any reachable state yields the
\* detected set, active backend, voice arrays and chip register contents that
\* the first initialisation produced.
C27_ReinitIdempotent ==
    last_op.op = "chip_manager_init" =>
        LET first == chip_manager_init(PowerOn, chip_present)
        IN  /\ available_chips = first.avail
            /\ current_chip = first.chip
            /\ ym2149_voices = first.voices
            /\ ym2149_voice_extra = first.extra
            /\ regs = first.regs

\* re-initialised from a state with voice 0 sounding in envelope mode
C27_Witness ==
    /\ last_op.op = "chip_manager_init"
    /\ last_op.b = 1 /\ last_op.c = 1
    /\ current_chip = CHIP_YM2149
    /\ regs[YM2149_MIXER] = YM2149_MIX_ALL_TONE
    /\ regs[YM2149_FREQ_ENV_LSB] = 0
    /\ ym2149_voices[0].active = 0

\* re-initialised from a state in which panic had disabled the mixer
C27_WitnessAfterPanic ==
    /\ last_op.op = "chip_manager_init"
    /\ last_op.a = YM2149_MIX_ALL_OFF
    /\ regs[YM2149_MIXER] = YM2149_MIX_ALL_TONE

----------------------------------------------------------------------------
(* set_attack and set_release called directly, on any voice, between notes *)

\* the 16-bit envelope period: fine register, coarse register
EnvPeriod(r) == r[YM2149_FREQ_ENV_LSB] + 256 * r[YM2149_FREQ_ENV_MSB]

\* current_chip->set_attack(voice, value) or current_chip->set_release(voice,
\* value); last_op keeps the envelope period from before the call
EnvCall(op, voice, value) ==
    /\ current_chip # CHIP_NONE
    /\ Store(IF op = "set_attack"
             THEN ym2149_set_attack(Called(Machine, op, voice), voice, value)
             ELSE ym2149_set_release(Called(Machine, op, voice), voice, value))
    /\ last_op' = Op(op, voice, value, EnvPeriod(regs), 0)
    /\ UNCHANGED <<parserVars, alloc_log, chip_present, ym2149_ports, det, loop, twin>>

\* one key played and released; both operations on every voice with values
\* from both halves of the 8-bit range
NextEnvelope ==
    \/ \E msg \in {<<MIDI_NOTE_ON, 60, 100>>, <<MIDI_NOTE_OFF, 60, 0>>} :
         Control(msg[1], msg[2], msg[3])
    \/ \E op \in {"set_attack", "set_release"}, v \in VoiceIdx,
          x \in {0, 1, 64, 127, 200, 255} : EnvCall(op, v, x)

SpecEnvelope == Init /\ [][NextEnvelope]_vars

\* C28: set_attack and set_release write the same envelope-frequency register
\* pair: after any interleaving of such calls on any voices the pair holds
\* value * 255 / 127 of the most recent call.
C28_LastEnvelopeWriterWins ==
    last_op.op \in {"set_attack", "set_release"} =>
        /\ EnvPeriod(regs) = (last_op.b * 255) \div 127
        /\ regs[YM2149_FREQ_ENV_LSB] < 256
        /\ regs[YM2149_FREQ_ENV_MSB] < 256

\* set_release(2, 64) has just replaced the period 255 that an earlier
\* set_attack(0, 127) had put there
C28_Witness ==
    /\ last_op.op = "set_release" /\ last_op.a = 2 /\ last_op.b = 64
    /\ last_op.c = 255
    /\ ym2149_voice_extra[0].envelope_enabled = 1
    /\ EnvPeriod(regs) = 128

----------------------------------------------------------------------------
(* Restarting the parser at a system-common byte *)

\* midi_driver_process_input with a byte available, as Byte, with the second
\* parser run beside it: started fresh by a byte 0xF0..0xF7, then given every
\* byte the parser is given, against the same synthesizer state
RestartByte(byte) ==
    LET r == midi_process_byte(midi_state, Machine, byte)
        t == midi_process_byte(twin.ms, Machine, byte)
    IN  /\ r.m.counter <= MaxParserAllocs
        /\ midi_state' = r.ms
        /\ Store(r.m)
        /\ dispatched' = [i \in 1 .. Len(r.out) |->
                            [status |-> r.out[i][1], data1 |-> r.out[i][2],
                             data2 |-> r.out[i][3],
                             run |-> IF byte < 128 THEN Append(pending.data, byte)
                                     ELSE pending.data,
                             st |-> pending.st, cut |-> pending.cut]]
        /\ pending' = PendingAfter(byte, r)
        /\ twin' = IF byte >= 240 /\ byte < 248
                   THEN [on |-> TRUE, ms |-> InitialMidiState, out |-> <<>>, same |-> TRUE]
                   ELSE IF twin.on
                   THEN [on |-> TRUE, ms |-> t.ms, out |-> t.out, same |-> (t.m = r.m)]
                   ELSE twin
        /\ last_op' = Op("byte", byte, midi_state.byte_count, 0, 0)
        /\ UNCHANGED <<alloc_log, chip_present, ym2149_ports, det, loop>>

NextRestart == \E b \in ParserBytes : RestartByte(b)

SpecRestart == Init /\ [][NextRestart]_vars

----------------------------------------------------------------------------
(* Controllers 1 to 8 on two channels *)

\* one key on channel 0, played (twice: two voices), released; every
\* controller 1..8 on channels 0 and 5
NextCC ==
    \/ \E msg \in {<<MIDI_NOTE_ON, 60, 100>>, <<MIDI_NOTE_OFF, 60, 0>>} :
         Control(msg[1], msg[2], msg[3])
    \/ \E n \in 1 .. 8, ch \in {0, 5} : Control(MIDI_CONTROL_CHANGE + ch, n, 0)

SpecCC == Init /\ [][NextCC]_vars

\* the backend operation of a controller number
ControllerOp(n) ==
    CASE n \in 1 .. 4 -> "set_volume"
      [] n = 5 -> "set_attack"
      [] n = 6 -> "set_decay"
      [] n = 7 -> "set_sustain"
      [] n = 8 -> "set_release"

\* C30: a ControlChange for controllers 1 to 8 invokes the corresponding
\* backend operation once, on the lowest-index active voice, and invokes no
\* backend operation when no voice is active, whatever channel it carries.
C30_ControllerFirstActiveVoice ==
    (/\ last_op.op = "message"
     /\ last_op.a - (last_op.a % 16) = MIDI_CONTROL_CHANGE
     /\ last_op.b \in 1 .. 8) =>
        LET active == {v \in VoiceIdx : ym2149_voices[v].active # 0}
        IN  IF active = {}
            THEN calls = <<>>
            ELSE /\ Len(calls) = 1
                 /\ calls[1][1] = ControllerOp(last_op.b)
                 /\ calls[1][2] \in active
                 /\ \A v \in active : calls[1][2] <= v

\* controller 7 on channel 5 has been applied to voice 0 while voices 0 and 1,
\* both playing on channel 0, are active
C30_Witness ==
    /\ last_op.op = "message" /\ last_op.a = MIDI_CONTROL_CHANGE + 5 /\ last_op.b = 7
    /\ ym2149_voices[0].active = 1 /\ ym2149_voices[0].channel = 0
    /\ ym2149_voices[1].active = 1
    /\ calls = << <<"set_sustain", 0>> >>

----------------------------------------------------------------------------
(* The port configuration and the command that reloads it *)

\* what fopen("ports.conf") can find: nothing that opens, or a file of lines
ConfigFiles ==
    {[opens |-> FALSE, lines |-> <<>>]}
    \cup {[opens |-> TRUE, lines |-> l] :
            l \in {<<>>, << <<"", 0>>, <<"addr_port", 16>> >>, << <<"data_port", 17>> >>,
                   << <<"addr_port", 16>>, <<"data_port", 16>> >>,
                   << <<"addr_port", 472>>, <<"data_port", 18>>, <<"other", 1>> >>,
                   << <<"data_port", 17>>, <<"addr_port", 32>>, <<"data_port", 33>> >>}}

\* process_command('r'): last_op records whether the file opened and the return value
ReloadPorts(file) ==
    LET r == port_config_load_from_file(ym2149_ports, file)
    IN  /\ ym2149_ports' = r.p
        /\ last_op' = Op("port_config_load_from_file", IF file.opens THEN 1 ELSE 0,
                         ym2149_ports.addr_port, ym2149_ports.data_port, r.ret)
        /\ UNCHANGED <<synthVars, parserVars, alloc_log, chip_present, det, loop, twin>>

NextPorts ==
    \/ \E file \in ConfigFiles : ReloadPorts(file)
    \/ \E id \in ChipIds : SetChip(id)
    \/ Panic

SpecPorts == Init /\ [][NextPorts]_vars

\* C31: when the configuration file is missing or unreadable,
\* port_config_load_from_file reports failure (returns 0, the program goes on)
\* and the ports in effect afterwards are the defaults, address 0xD8 and data
\* 0xD0, whatever ports were configured before the call
C31_MissingFileGivesDefaults ==
    (last_op.op = "port_config_load_from_file" /\ last_op.a = 0)
        => /\ last_op.ret = 0
           /\ ym2149_ports.addr_port = 216
           /\ ym2149_ports.data_port = 208

\* the failing case: ports other than the defaults were loaded, then the file
\* is gone, and the ports in effect are still the loaded ones
C31_FailingInput ==
    /\ last_op.op = "port_config_load_from_file"
    /\ last_op.a = 0
    /\ last_op.ret = 0
    /\ current_chip = CHIP_YM2149
    /\ ym2149_ports.addr_port = 32
    /\ ym2149_ports.data_port = 33

----------------------------------------------------------------------------
(* The mixer while voices play *)

\* C32: whenever a voice is active as the result of a dispatched Note On, the
\* mixer register has the tone output of that voice's channel enabled (its
\* bit, 0 for A, 1 for B, 2 for C, is clear); in particular a Note On
\* dispatched after a panic sounds without the backend being selected again
C32_ActiveVoiceToneEnabled ==
    \A v \in VoiceIdx :
        (current_chip # CHIP_NONE /\ ym2149_voices[v].active # 0)
            => BitAnd(regs[YM2149_MIXER], 2 ^ v) = 0

\* the failing case: a Note On dispatched after a panic, its voice active,
\* every tone output disabled
C32_FailingInput ==
    /\ last_op.op = "message"
    /\ last_op.a = MIDI_NOTE_ON
    /\ ym2149_voices[0].active # 0
    /\ regs[YM2149_MIXER] = YM2149_MIX_ALL_OFF

----------------------------------------------------------------------------
(* Released keys *)

\* C33: after a Note Off (note, channel), or a Note On with velocity 0 for the
\* same pair, has been dispatched, no voice is active with that note and
\* channel, whatever events came before
C33_ReleasedKeyIsSilent ==
    (/\ last_op.op = "message"
     /\ \/ last_op.a - (last_op.a % 16) = MIDI_NOTE_OFF
        \/ last_op.a - (last_op.a % 16) = MIDI_NOTE_ON /\ last_op.c = 0)
        => \A v \in VoiceIdx :
               ~(/\ current_chip # CHIP_NONE
                 /\ ym2149_voices[v].active # 0
                 /\ ym2149_voices[v].midi_note = last_op.b
                 /\ ym2149_voices[v].channel = last_op.a % 16)

\* the failing case: note 60 on channel 0 played twice, released once, and
\* the second voice still holds it
C33_FailingInput ==
    /\ last_op = Op("message", MIDI_NOTE_OFF, 60, 0, 0)
    /\ ym2149_voices[0].active = 0
    /\ ym2149_voices[1].active # 0
    /\ ym2149_voices[1].midi_note = 60
    /\ ym2149_voices[1].channel = 0

----------------------------------------------------------------------------
(* A selection that fails *)

\* C34: a failed chip_manager_set_chip call (unknown or undetected backend
\* kind) invokes no operation on the active backend: the voice array and all
\* chip registers are the same after the call as before it
C34_FailedSelectionNoEffect ==
    [][(last_op'.op = "set_chip" /\ last_op'.ret = 0)
           => /\ calls' = <<>>
              /\ port_log' = <<>>
              /\ ym2149_voices' = ym2149_voices
              /\ regs' = regs]_vars

\* the failing case: a voice was sounding, the selection failed, and the
\* backend's all_off has run and cleared the voice and its level register
C34_FailingInput ==
    /\ last_op.op = "set_chip"
    /\ last_op.a = CHIP_OPL3
    /\ last_op.ret = 0
    /\ current_chip = CHIP_YM2149
    /\ calls = << <<"all_off", NO_VOICE>> >>
    /\ Len(port_log) = 3
    /\ note_counter > 0
    /\ \A v \in VoiceIdx : ym2149_voices[v].active = 0

----------------------------------------------------------------------------
(* Level registers of voices that play nothing *)

\* C35: in every reachable state after backend initialisation, every inactive
\* voice's level register holds volume 0 (its low four bits are clear)
C35_InactiveVoiceLevelZero ==
    \A v \in VoiceIdx :
        (current_chip # CHIP_NONE /\ ym2149_voices[v].active = 0)
            => BitAnd(regs[YM2149_LEVEL_A + v], 15) = 0

\* the failing case: a backend selected again after notes were played, no
\* voice active, and the three level registers at full volume
C35_FailingInput ==
    /\ last_op = Op("set_chip", CHIP_YM2149, 0, 0, 1)
    /\ note_counter > 0
    /\ \A v \in VoiceIdx : /\ ym2149_voices[v].active = 0
                           /\ regs[YM2149_LEVEL_A + v] = 15
    /\ regs[YM2149_MIXER] = YM2149_MIX_ALL_TONE

----------------------------------------------------------------------------
(* The stored envelope-mode flag and the level register *)

\* C36 as stated: for every voice, the stored envelope-mode flag equals bit 4
\* of the value most recently written to that voice's level register
C36_FlagEqualsLevelBit ==
    \A v \in VoiceIdx :
        current_chip # CHIP_NONE
            => (ym2149_voice_extra[v].envelope_enabled # 0)
                   = (EnvelopeModeBit(regs[YM2149_LEVEL_A + v]) = 1)

\* C36 amended: the flag equals bit 4 of the value most recently written to
\* the voice's level register, except for a voice that note_off has released:
\* note_off writes 0 and leaves the flag, so an inactive voice may have the
\* flag set while its level register holds 0
C36_FlagEqualsLevelBitUnlessReleased ==
    \A v \in VoiceIdx :
        current_chip # CHIP_NONE
            => \/ (ym2149_voice_extra[v].envelope_enabled # 0)
                      = (EnvelopeModeBit(regs[YM2149_LEVEL_A + v]) = 1)
               \/ /\ ym2149_voices[v].active = 0
                  /\ regs[YM2149_LEVEL_A + v] = 0
                  /\ ym2149_voice_extra[v].envelope_enabled = 1

\* a sounding voice switched to envelope mode, released, and played again:
\* the flag is set and the level register carries the bit once more
C36_Witness ==
    /\ last_op = Op("message", MIDI_NOTE_ON, 60, 100, 0)
    /\ note_counter = 2
    /\ ym2149_voices[0].active # 0
    /\ ym2149_voice_extra[0].envelope_enabled = 1
    /\ regs[YM2149_LEVEL_A] = BitOr(YM2149_VOLUME_ENV, 11)

----------------------------------------------------------------------------
(* The range of stored volumes and of level-register values *)

\* C37: after any sequence of backend operations called with any 8-bit
\* arguments, the stored volume of every voice is at most 15 and every value
\* written to a level register has bits 5 to 7 clear
C37_VolumeInRange ==
    current_chip # CHIP_NONE
        => /\ \A v \in VoiceIdx : ym2149_voice_extra[v].volume <= 15
           /\ \A i \in 1 .. Len(port_log) :
                  port_log[i][1] \in {YM2149_LEVEL_A, YM2149_LEVEL_B, YM2149_LEVEL_C}
                      => port_log[i][2] < 32

\* the failing case: set_volume(0, 200) on the sounding voice, then the
\* attack controller: 200 is stored and 0x10 | 200 is written to level A
C37_FailingInput ==
    /\ last_op = Op("message", MIDI_CONTROL_CHANGE, 5, 127, 0)
    /\ ym2149_voice_extra[0].volume = 200
    /\ Len(port_log) = 3
    /\ port_log[3] = <<YM2149_LEVEL_A, 216>>

----------------------------------------------------------------------------
(* ym2149_note_on called directly *)

\* current_chip->note_on(voice, note, velocity, channel); last_op keeps the
\* arguments, the channel in its last field
NoteOnCall(voice, note, velocity, channel) ==
    /\ current_chip # CHIP_NONE
    /\ note_counter <= MaxPeriodNotes
    /\ Store(ym2149_note_on(Called(Machine, "note_on", voice), voice, note,
                            velocity, channel))
    /\ last_op' = Op("note_on", voice, note, velocity, channel)
    /\ UNCHANGED <<parserVars, alloc_log, chip_present, ym2149_ports, det, loop, twin>>

\* every voice, notes below, inside and above the table, velocities over 0..127
NextNoteOn ==
    \E v \in VoiceIdx, n \in {23, 60, 127}, x \in {0, 1, 100, 127}, c \in {0, 9} :
        NoteOnCall(v, n, x, c)

SpecNoteOn == Init /\ [][NextNoteOn]_vars

\* C38: after note_on(voice, note, velocity, channel) with voice < 3 the voice
\* is active and stores that note, velocity and channel, its tone-period
\* registers hold the table period of the note clamped into 24..96 (low byte
\* written first, then the high 4 bits), the volume bits of its level register
\* hold velocity * 15 / 127 rounded down, and no other voice's stored state or
\* tone-period and level registers change
C38_NoteOnEffect ==
    [][last_op'.op = "note_on" =>
        LET v == last_op'.a
            note == last_op'.b
            clamped == IF note < 24 THEN 24 ELSE IF note > 96 THEN 96 ELSE note
            period == note_tp[clamped - 23]
        IN  /\ ym2149_voices'[v].active # 0
            /\ ym2149_voices'[v].midi_note = note
            /\ ym2149_voices'[v].velocity = last_op'.c
            /\ ym2149_voices'[v].channel = last_op'.ret
            /\ regs'[2 * v] = period % 256
            /\ regs'[2 * v + 1] = period \div 256
            /\ regs'[2 * v + 1] < 16
            /\ port_log'[1] = <<2 * v, period % 256>>
            /\ port_log'[2] = <<2 * v + 1, period \div 256>>
            /\ regs'[YM2149_LEVEL_A + v] % 16 = (last_op'.c * 15) \div 127
            /\ (last_op'.c * 15) \div 127 \in 0 .. 15
            /\ \A w \in VoiceIdx \ {v} :
                   /\ ym2149_voices'[w] = ym2149_voices[w]
                   /\ ym2149_voice_extra'[w] = ym2149_voice_extra[w]
                   /\ regs'[2 * w] = regs[2 * w]
                   /\ regs'[2 * w + 1] = regs[2 * w + 1]
                   /\ regs'[YM2149_LEVEL_A + w] = regs[YM2149_LEVEL_A + w]]_vars

\* note 127 has been played on voice 1 while voice 0 holds note 23: voice 1
\* got the period of note 96 and voice 0 kept the period of note 24
C38_Witness ==
    /\ last_op = Op("note_on", 1, 127, 127, 9)
    /\ ym2149_voices[1].active # 0
    /\ TonePeriod(regs, 1) = 55
    /\ regs[YM2149_LEVEL_B] = 15
    /\ ym2149_voices[0].active # 0
    /\ ym2149_voices[0].midi_note = 23
    /\ TonePeriod(regs, 0) = 3522

----------------------------------------------------------------------------
(* Status bytes of unsupported channel-voice kinds *)

\* the receiver delivers note, controller, polyphonic-pressure and
\* channel-pressure messages and a real-time byte
NextPressure == \E b \in {7, 60, 100, 144, 165, 176, 208, 248} : Byte(b)

SpecPressure == Init /\ [][NextPressure]_vars

\* C39: a status byte of an unsupported channel-voice kind (0xAn, 0xDn) is
\* consumed as status-only (it becomes the running status with no data bytes
\* expected), and neither it nor any data byte received while it is the
\* running status results in a backend operation, a voice-state change or a
\* controller-value change
C39_UnsupportedStatusNoEffect ==
    [][(/\ last_op'.op = "byte"
        /\ \/ last_op'.a - (last_op'.a % 16) \in {160, 208}
           \/ /\ last_op'.a < 128
              /\ pending.st - (pending.st % 16) \in {160, 208})
           => /\ calls' = <<>>
              /\ port_log' = <<>>
              /\ UNCHANGED <<ym2149_voices, ym2149_voice_extra, midi_cc_controls,
                             regs, note_counter, current_chip>>
              /\ last_op'.a >= 128
                     => /\ midi_state'.status = last_op'.a
                        /\ midi_state'.expected_bytes = 0
                        /\ midi_state'.byte_count = 0]_vars

\* a data byte has arrived under running status 0xD0 while a voice sounds and
\* controller 7 has a value: the byte was handed over as a message and
\* nothing was called
C39_Witness ==
    /\ last_op.op = "byte"
    /\ last_op.a = 60
    /\ midi_state.status = 208
    /\ Len(dispatched) = 1
    /\ dispatched[1].status = 208
    /\ ym2149_voices[0].active # 0
    /\ midi_cc_controls[7].value = 100
    /\ calls = <<>>

----------------------------------------------------------------------------
(* The pitch wheel: every pair of data bytes after a pitch-bend status *)

\* note 60 is sounding, and the receiver has delivered the pitch-bend status
\* byte and any first data byte
InitWheel ==
    /\ chip_present = TRUE
    /\ \E data1 \in 0 .. 127 :
         LET step(s, byte) == midi_process_byte(s.ms, s.m, byte)
             played == step(step(step([ms |-> InitialMidiState,
                                       m |-> chip_manager_init(PowerOn, chip_present)],
                                      MIDI_NOTE_ON), 60), 100)
             s5 == step(step([played EXCEPT !.m.log = <<>>, !.m.bus = <<>>,
                                            !.m.calls = <<>>], MIDI_PITCH_BEND), data1)
         IN  /\ midi_state = s5.ms
             /\ current_chip = s5.m.chip
             /\ available_chips = s5.m.avail
             /\ ym2149_voices = s5.m.voices
             /\ ym2149_voice_extra = s5.m.extra
             /\ note_counter = s5.m.counter
             /\ regs = s5.m.regs
             /\ midi_cc_controls = s5.m.cc
             /\ port_log = s5.m.log
             /\ bus_log = s5.m.bus
             /\ calls = s5.m.calls
             /\ dispatched = <<>>
             /\ pending = [st |-> MIDI_PITCH_BEND, data |-> <<data1>>, cut |-> FALSE]
             /\ last_op = Op("byte", data1, 0, 0, 0)
    /\ alloc_log = <<>>
    /\ det = DetIdle
    /\ loop = LoopIdle
    /\ twin = TwinOff
    /\ ym2149_ports = StartPorts(current_chip)

\* the second data byte arrives
NextWheel == \E data2 \in 0 .. 127 : midi_state.byte_count = 1 /\ Byte(data2)

SpecWheel == InitWheel /\ [][NextWheel]_vars

\* C40: for every pair of data bytes (data1, data2) in 0..127 following a
\* pitch-bend status, the bend value handed to the backend is
\* (data2 * 128 + data1) - 8192, which lies in -8192..8191 and is 0 exactly
\* for the centre position (data1 = 0, data2 = 64)
C40_WheelValue ==
    (last_op.op = "byte" /\ Len(dispatched) = 1) =>
        LET data1 == dispatched[1].run[1]
            data2 == dispatched[1].run[2]
            value == (data2 * 128 + data1) - 8192
        IN  /\ dispatched[1].st = MIDI_PITCH_BEND
            /\ calls = << <<"set_pitch_bend", NO_VOICE, value>> >>
            /\ value \in -8192 .. 8191
            /\ (value = 0) <=> (data1 = 0 /\ data2 = 64)

\* the top of the range: data bytes 127, 127 gave 8191 and the sounding note's
\* period went from 440 down to its bent value
C40_Witness ==
    /\ last_op.op = "byte"
    /\ Len(dispatched) = 1
    /\ dispatched[1].run = <<127, 127>>
    /\ calls = << <<"set_pitch_bend", NO_VOICE, 8191>> >>
    /\ ym2149_voices[0].active # 0
    /\ TonePeriod(regs, 0) = ym2149_apply_pitch_bend(440, 8191)
    /\ TonePeriod(regs, 0) < 440

====
